---- MODULE Spec2Model ----
(***************************************************************************)
(* Model of the weblinkauto dealer-storefront server (src/server.js, the   *)
(* Supabase revision) together with the dealer PATCH route of the Airtable *)
(* revision (src/routes/dealer.js).                                        *)
(*                                                                         *)
(* The data store is three tables (profiles, vehicles, viewing_requests)   *)
(* kept as partial functions keyed by the column that carries the unique   *)
(* constraint.  Handlers whose claims are about interleavings are split at *)
(* their awaits; the others are one action per handler.                    *)
(***************************************************************************)
EXTENDS Integers, Sequences, FiniteSets, TLC

VARIABLES
    profiles,     \* profiles table: dealer number -> row
    vehicles,     \* vehicles table: vehicle_id -> row
    requests,     \* viewing_requests table: request number -> row
    resetTokens,  \* in-memory Map token -> [dealerId, expiresAt]
    now,          \* Date.now(), in hours
    stripeApi,    \* what the Stripe API answers (sessions.list, subscriptions.retrieve)
    inflight,     \* per connection: the handler run suspended at an await
    resp,         \* the last response sent, with what its handler run did
    hist          \* history: reset tokens issued, passcode rewrites per token

vars == <<profiles, vehicles, requests, resetTokens, now, stripeApi, inflight, resp, hist>>

-----------------------------------------------------------------------------
(* Bounds *)

MaxDealers == 3      \* dealer numbers 1..MaxDealers (DEALER-0001 ...)
MaxProvisioned == 1  \* profile rows the Stripe webhook may create
MaxRequests == 1     \* viewing_requests rows the public route may create
MaxTokens == 2       \* reset tokens that can be issued
MaxNow == 3          \* the clock stops advancing here
MaxPassLen == 2      \* characters of a passcode given to hashPasscode
MaxIdLen == 42       \* characters of a string given to isValidDealerId

(* Program constants, in hours *)
ResetTtlHours == 1
TrialDefaultHours == 336

DealerNums == 1..MaxDealers
VehicleIds == {"VEH-1", "VEH-2"}
Conns == {"c1", "c2"}

NullTime == 0

-----------------------------------------------------------------------------
(* JSON values of a request body.  "absent" is undefined; "bool:" marks a   *)
(* JSON boolean and "str:" a JSON string.                                   *)

JsonBools == {"absent", "bool:true", "bool:false", "str:true", "str:1", "str:yes",
              "str:false", "str:0", "str:no", "str:junk"}

\* toBool: "yes"/"no"/"undefined" stand for true/false/undefined
toBool(value) ==
    CASE value = "bool:true" -> "yes"
      [] value = "bool:false" -> "no"
      [] value \in {"str:true", "str:1", "str:yes"} -> "yes"
      [] value \in {"str:false", "str:0", "str:no"} -> "no"
      [] OTHER -> "undefined"

\* (mutant) no dealer counts as paused
isPausedNever(dealer) == FALSE

\* cleanStr(status).toLowerCase() for the status spellings the model uses
LowerStatus(s) ==
    CASE s \in {"paused", "Paused", "PAUSED"} -> "paused"
      [] s \in {"active", "Active"} -> "active"
      [] OTHER -> s

isPausedDealer(dealer) == LowerStatus(dealer.status) = "paused"

isSubscriptionActive(dealer) ==
    LET status == dealer.stripe_subscription_status IN
    IF status = "" THEN TRUE
    ELSE IF status \in {"active", "trialing"} THEN TRUE
    ELSE IF dealer.trial_ends_at # NullTime THEN dealer.trial_ends_at > now
    ELSE FALSE

-----------------------------------------------------------------------------
(* Authentication middleware *)

\* a bearer token after verifyToken: none/invalid, or its decoded payload
Tokens == {[valid |-> FALSE, role |-> "", dealerId |-> 0]}
          \cup {[valid |-> TRUE, role |-> "admin", dealerId |-> 0]}
          \cup {[valid |-> TRUE, role |-> "dealer", dealerId |-> d] : d \in DealerNums}

\* requireAuth then requireDealer: 0 means next() is called
requireDealer(token) ==
    IF ~token.valid THEN 401
    ELSE IF token.role # "dealer" THEN 403
    ELSE 0

\* data-store calls requireActiveDealer makes: getProfileByDealerId once the
\* token has passed requireDealer
authCalls(token) == IF requireDealer(token) # 0 THEN 0 ELSE 1

\* (mutant) the subscription check made before the paused check
requireActiveDealerSubscriptionFirst(token) ==
    IF requireDealer(token) # 0 THEN requireDealer(token)
    ELSE IF token.dealerId \notin DOMAIN profiles THEN 404
    ELSE IF ~isSubscriptionActive(profiles[token.dealerId]) THEN 402
    ELSE IF isPausedDealer(profiles[token.dealerId]) THEN 403
    ELSE 0

\* requireActiveDealer: 0 means next() is called
requireActiveDealer(token) ==
    IF requireDealer(token) # 0 THEN requireDealer(token)
    ELSE IF token.dealerId \notin DOMAIN profiles THEN 404
    ELSE IF isPausedDealer(profiles[token.dealerId]) THEN 403
    ELSE IF ~isSubscriptionActive(profiles[token.dealerId]) THEN 402
    ELSE 0

-----------------------------------------------------------------------------
(* Responses *)

Idle == [pc |-> "idle", op |-> "", dealerId |-> 0, vehicleId |-> "", existing |-> "", body |-> <<>>]

Reply(op, code, calls, mails, data) ==
    [op |-> op, code |-> code, dbCalls |-> calls, mails |-> mails, data |-> data]

NoResp == Reply("", 0, 0, <<>>, {})

NoHist == [issued |-> 0, rewrites |-> <<>>]

-----------------------------------------------------------------------------
(* Vehicles: the columns modelled are dealer_id, archived and availability. *)

NoFields == <<>>

Field(name, present, value) == IF present THEN name :> value ELSE NoFields

\* mapVehicleInput, restricted to the modelled columns; pruneUndefined drops
\* the columns whose toBool is undefined, and a dealer_id of the body is not
\* read
mapVehicleInput(body) ==
    Field("availability", toBool(body.availability) # "undefined", toBool(body.availability) = "yes")
    @@ Field("archived", toBool(body.archived) # "undefined", toBool(body.archived) = "yes")

\* column defaults of the vehicles table
VehicleDefaults == [dealer_id |-> 0, archived |-> FALSE, availability |-> TRUE]

\* insert into vehicles: fails on the unique constraint of vehicle_id
createVehicle(vehicleId, fields) ==
    IF vehicleId \in DOMAIN vehicles THEN vehicles
    ELSE vehicles @@ (vehicleId :> (fields @@ VehicleDefaults))

\* update vehicles set fields where vehicle_id = vehicleId
updateVehicleByVehicleId(vehicleId, fields) ==
    IF vehicleId \in DOMAIN vehicles
    THEN [vehicles EXCEPT ![vehicleId] = fields @@ @]
    ELSE vehicles

archiveVehicle(vehicleId) == updateVehicleByVehicleId(vehicleId, "archived" :> TRUE)

\* the fields object PATCH /vehicles/:vehicleId builds (Airtable revision)
patchVehicleFields(body) ==
    Field("availability", body.availability \in {"bool:true", "bool:false"},
          body.availability = "bool:true")
    @@ Field("archived", body.archived = "bool:true", TRUE)

\* the bodies the model posts; dealer_id 0 is a body without one
VehicleBodies ==
    [archived : {"absent", "bool:true", "bool:false", "str:no"},
     availability : {"absent", "bool:true", "bool:false"},
     dealer_id : {0, 2}]

\* (mutant) the ownership test left out
belongsToNobody(existing, dealerId) == FALSE

\* the ownership test of the three dealer vehicle routes
belongsToOther(existing, dealerId) == existing.dealer_id # dealerId

Suspend(c, pc, op, dealerId, vehicleId, existing) ==
    inflight' = [inflight EXCEPT ![c] =
        [pc |-> pc, op |-> op, dealerId |-> dealerId, vehicleId |-> vehicleId,
         existing |-> existing, body |-> <<>>]]

Finish(c, reply) ==
    /\ inflight' = [inflight EXCEPT ![c] = Idle]
    /\ resp' = reply

\* POST /api/dealer/vehicles: requireActiveDealer, then the vehicleId check.
\* vid = "" is a body without vehicleId.
PostVehicleAuth(c) ==
    /\ inflight[c].pc = "idle"
    /\ \E token \in Tokens, vid \in VehicleIds \cup {""} :
         LET code == requireActiveDealer(token) IN
         IF code # 0 THEN Finish(c, Reply("postVehicle", code, authCalls(token), <<>>, {}))
         ELSE IF vid = "" THEN Finish(c, Reply("postVehicle", 400, 1, <<>>, {}))
         ELSE /\ Suspend(c, "lookup", "postVehicle", token.dealerId, vid, "")
              /\ UNCHANGED resp
    /\ UNCHANGED <<profiles, vehicles, requests, resetTokens, now, stripeApi, hist>>

\* getVehicleByVehicleId and the ownership check
PostVehicleLookup(c) ==
    LET r == inflight[c] IN
    /\ r.pc = "lookup" /\ r.op = "postVehicle"
    /\ IF r.vehicleId \in DOMAIN vehicles /\ belongsToOther(vehicles[r.vehicleId], r.dealerId)
       THEN Finish(c, Reply("postVehicle", 403, 2, <<>>, {}))
       ELSE /\ Suspend(c, "write", r.op, r.dealerId, r.vehicleId,
                       IF r.vehicleId \in DOMAIN vehicles THEN "row" ELSE "none")
            /\ UNCHANGED resp
    /\ UNCHANGED <<profiles, vehicles, requests, resetTokens, now, stripeApi, hist>>

\* the fields object, then updateVehicleByVehicleId or createVehicle
PostVehicleWrite(c) ==
    LET r == inflight[c] IN
    /\ r.pc = "write" /\ r.op = "postVehicle"
    /\ \E body \in VehicleBodies :
         LET fields == ("dealer_id" :> r.dealerId) @@ mapVehicleInput(body) IN
         IF r.existing = "row"
         THEN /\ vehicles' = updateVehicleByVehicleId(r.vehicleId, fields)
              /\ Finish(c, Reply("postVehicle", 200, 3, <<>>, {}))
         ELSE IF r.vehicleId \in DOMAIN vehicles
         THEN /\ UNCHANGED vehicles
              /\ Finish(c, Reply("postVehicle", 500, 3, <<>>, {}))
         ELSE /\ vehicles' = createVehicle(r.vehicleId, fields)
              /\ Finish(c, Reply("postVehicle", 200, 3, <<>>, {}))
    /\ UNCHANGED <<profiles, requests, resetTokens, now, stripeApi, hist>>

\* POST /api/dealer/vehicles/:vehicleId/archive
ArchiveAuth(c) ==
    /\ inflight[c].pc = "idle"
    /\ \E token \in Tokens, vid \in VehicleIds :
         LET code == requireActiveDealer(token) IN
         IF code # 0 THEN Finish(c, Reply("archive", code, authCalls(token), <<>>, {}))
         ELSE /\ Suspend(c, "lookup", "archive", token.dealerId, vid, "")
              /\ UNCHANGED resp
    /\ UNCHANGED <<profiles, vehicles, requests, resetTokens, now, stripeApi, hist>>

ArchiveLookup(c) ==
    LET r == inflight[c] IN
    /\ r.pc = "lookup" /\ r.op = "archive"
    /\ IF r.vehicleId \notin DOMAIN vehicles
       THEN Finish(c, Reply("archive", 404, 2, <<>>, {}))
       ELSE IF belongsToOther(vehicles[r.vehicleId], r.dealerId)
       THEN Finish(c, Reply("archive", 403, 2, <<>>, {}))
       ELSE /\ Suspend(c, "write", r.op, r.dealerId, r.vehicleId, "row")
            /\ UNCHANGED resp
    /\ UNCHANGED <<profiles, vehicles, requests, resetTokens, now, stripeApi, hist>>

ArchiveWrite(c) ==
    LET r == inflight[c] IN
    /\ r.pc = "write" /\ r.op = "archive"
    /\ vehicles' = archiveVehicle(r.vehicleId)
    /\ Finish(c, Reply("archive", 200, 3, <<>>, {}))
    /\ UNCHANGED <<profiles, requests, resetTokens, now, stripeApi, hist>>

\* PATCH /api/dealer/vehicles/:vehicleId (Airtable revision): requireDealer,
\* getVehicleByVehicleId, the ownership check
PatchVehicleLookup(c) ==
    /\ inflight[c].pc = "idle"
    /\ \E token \in Tokens, vid \in VehicleIds :
         LET code == requireDealer(token) IN
         IF code # 0 THEN Finish(c, Reply("patchVehicle", code, 0, <<>>, {}))
         ELSE IF vid \notin DOMAIN vehicles
         THEN Finish(c, Reply("patchVehicle", 404, 1, <<>>, {}))
         ELSE IF belongsToOther(vehicles[vid], token.dealerId)
         THEN Finish(c, Reply("patchVehicle", 403, 1, <<>>, {}))
         ELSE /\ Suspend(c, "write", "patchVehicle", token.dealerId, vid, "row")
              /\ UNCHANGED resp
    /\ UNCHANGED <<profiles, vehicles, requests, resetTokens, now, stripeApi, hist>>

\* updateVehicleByRecordId with the fields PATCH allows
PatchVehicleWrite(c) ==
    LET r == inflight[c] IN
    /\ r.pc = "write" /\ r.op = "patchVehicle"
    /\ \E body \in VehicleBodies :
         /\ vehicles' = updateVehicleByVehicleId(r.vehicleId, patchVehicleFields(body))
         /\ Finish(c, Reply("patchVehicle", 200, 2, <<>>, {}))
    /\ UNCHANGED <<profiles, requests, resetTokens, now, stripeApi, hist>>

-----------------------------------------------------------------------------
(* Profiles *)

Customers == {"cus_1"}
Subscriptions == {"sub_1", "sub_2"}

\* column defaults of the profiles table
ProfileDefaults ==
    [status |-> "active", profile_email |-> "", password |-> "",
     stripe_customer_id |-> "", stripe_subscription_id |-> "",
     stripe_subscription_status |-> "", trial_ends_at |-> NullTime]

\* the rows of table P with column = value
Matching(P, column, value) == {d \in DOMAIN P : P[d][column] = value}

TheRow(S) == CHOOSE d \in S : TRUE

\* upsert on conflict dealer_id: only the columns given are written
upsertProfile(P, dealerId, fields) ==
    IF dealerId \in DOMAIN P
    THEN [P EXCEPT ![dealerId] = fields @@ @]
    ELSE P @@ (dealerId :> (fields @@ ProfileDefaults))

\* getLatestDealerId: the greatest DEALER-nnnn, 0 when there is none
getLatestDealerId(P) ==
    IF DOMAIN P = {} THEN 0 ELSE CHOOSE d \in DOMAIN P : \A e \in DOMAIN P : e <= d

\* generateNextDealerId: the first free number from latest + 1 on
generateNextDealerId(P) ==
    LET nextNumber == getLatestDealerId(P) + 1 IN
    CHOOSE n \in nextNumber..(nextNumber + 49) :
        /\ n \notin DOMAIN P
        /\ \A m \in nextNumber..(n - 1) : m \in DOMAIN P

\* generatePasscode: the passcodes the random generator may return
GeneratedPasscodes == {"100000"}

\* dealer = (customerId ? getProfileByStripeCustomerId : null)
\*          || (subscriptionId ? getProfileByStripeSubscriptionId : null)
\* maybeSingle throws when more than one row matches
findStripeDealer(P, customerId, subscriptionId) ==
    LET byC == IF customerId # "" THEN Matching(P, "stripe_customer_id", customerId) ELSE {}
        byS == IF subscriptionId # "" THEN Matching(P, "stripe_subscription_id", subscriptionId)
               ELSE {}
        nC == IF customerId # "" THEN 1 ELSE 0
        nS == IF subscriptionId # "" THEN 1 ELSE 0
    IN  IF Cardinality(byC) > 1 THEN [err |-> TRUE, found |-> FALSE, id |-> 0, calls |-> nC]
        ELSE IF byC # {} THEN [err |-> FALSE, found |-> TRUE, id |-> TheRow(byC), calls |-> nC]
        ELSE IF Cardinality(byS) > 1
        THEN [err |-> TRUE, found |-> FALSE, id |-> 0, calls |-> nC + nS]
        ELSE IF byS # {}
        THEN [err |-> FALSE, found |-> TRUE, id |-> TheRow(byS), calls |-> nC + nS]
        ELSE [err |-> FALSE, found |-> FALSE, id |-> 0, calls |-> nC + nS]

\* the outcome of a handler run on the profiles table
Outcome(P, code, calls, mails) == [profiles |-> P, code |-> code, calls |-> calls, mails |-> mails]

NoSubscription == [id |-> "", customer |-> "", status |-> "", trial_end |-> NullTime,
                   latest_invoice |-> FALSE]

\* provisionDealerFromStripe({ session, subscription }); code 0 is a normal return
provisionDealerFromStripe(P, t, session, subscription, passcode) ==
    LET customerId == session.customer
        subscriptionId == IF session.subscription # "" THEN session.subscription
                          ELSE subscription.id
        email == session.email
        look == findStripeDealer(P, customerId, subscriptionId)
        trialEndsAt == IF subscription.trial_end # NullTime THEN subscription.trial_end
                       ELSE t + TrialDefaultHours
        status == IF subscription.status # "" THEN subscription.status ELSE "trialing"
    IN  IF look.err THEN Outcome(P, 500, look.calls, <<>>)
        ELSE IF ~look.found
        THEN LET dealerId == generateNextDealerId(P) IN
             Outcome(upsertProfile(P, dealerId,
                         [status |-> "active", password |-> passcode,
                          trial_ends_at |-> trialEndsAt,
                          stripe_subscription_status |-> status]
                         @@ Field("profile_email", email # "", email)
                         @@ Field("stripe_customer_id", customerId # "", customerId)
                         @@ Field("stripe_subscription_id", subscriptionId # "", subscriptionId)),
                     0, look.calls + 3,
                     IF email # "" THEN <<"welcome">> ELSE <<>>)
        ELSE LET dealer == P[look.id] IN
             Outcome(upsertProfile(P, look.id,
                         [trial_ends_at |-> trialEndsAt,
                          stripe_subscription_status |-> status]
                         @@ Field("profile_email", email # "" \/ dealer.profile_email # "",
                                  IF email # "" THEN email ELSE dealer.profile_email)
                         @@ Field("stripe_customer_id",
                                  customerId # "" \/ dealer.stripe_customer_id # "",
                                  IF customerId # "" THEN customerId
                                  ELSE dealer.stripe_customer_id)
                         @@ Field("stripe_subscription_id",
                                  subscriptionId # "" \/ dealer.stripe_subscription_id # "",
                                  IF subscriptionId # "" THEN subscriptionId
                                  ELSE dealer.stripe_subscription_id)),
                     0, look.calls + 1, <<>>)

\* the subscription statuses that suspend the dealer
suspends(status) == status = "canceled" \/ status = "unpaid"

\* the branch of customer.subscription.* taken when no checkout session is found
reconcileSubscription(P, subscription) ==
    LET look == findStripeDealer(P, subscription.customer, subscription.id) IN
    IF look.err THEN Outcome(P, 500, look.calls, <<>>)
    ELSE IF ~look.found THEN Outcome(P, 0, look.calls, <<>>)
    ELSE LET dealer == P[look.id]
             P1 == upsertProfile(P, look.id,
                       [stripe_subscription_status |-> subscription.status,
                        trial_ends_at |-> IF subscription.trial_end # NullTime
                                          THEN subscription.trial_end
                                          ELSE dealer.trial_ends_at,
                        stripe_subscription_id |-> subscription.id,
                        stripe_customer_id |-> IF subscription.customer # ""
                                               THEN subscription.customer
                                               ELSE dealer.stripe_customer_id])
         IN  IF suspends(subscription.status)
             THEN Outcome(upsertProfile(P1, look.id, [status |-> "paused"]), 0, look.calls + 2,
                          IF dealer.profile_email # "" THEN <<"suspension">> ELSE <<>>)
             ELSE Outcome(P1, 0, look.calls + 1, <<>>)

-----------------------------------------------------------------------------
(* Stripe webhook *)

SubscriptionTypes == {"customer.subscription.created", "customer.subscription.updated",
                      "customer.subscription.deleted"}

Sessions == [customer : Customers \cup {""}, subscription : Subscriptions \cup {""},
             email : {"", "n@x.io"}]

SubscriptionObjects ==
    [id : Subscriptions, customer : Customers, status : {"active", "canceled", "unpaid"},
     trial_end : {NullTime, 5}, latest_invoice : BOOLEAN]

\* the status a subscription carries in each event type: Stripe sends deleted
\* for a canceled subscription
StatusesOf(type) ==
    CASE type = "customer.subscription.created" -> {"active"}
      [] type = "customer.subscription.updated" -> {"active", "unpaid"}
      [] type = "customer.subscription.deleted" -> {"canceled"}

NoSession == [customer |-> "", subscription |-> "", email |-> ""]

\* the events Stripe may post; every event carries both objects so that events
\* compare, the one its type does not use being empty
Events ==
    {[type |-> "checkout.session.completed", session |-> s, subscription |-> NoSubscription] :
        s \in Sessions}
    \cup UNION {{[type |-> ty, session |-> NoSession, subscription |-> sub] :
                    sub \in {o \in SubscriptionObjects : o.status \in StatusesOf(ty)}} :
                 ty \in SubscriptionTypes}
    \cup {[type |-> "invoice.payment_failed",
           session |-> [NoSession EXCEPT !.customer = c], subscription |-> NoSubscription] :
            c \in Customers}
    \cup {[type |-> "charge.succeeded", session |-> NoSession, subscription |-> NoSubscription]}

\* (mutant) the payload parsed without verifying the signature
constructEventUnverified(event, sigValid) == [ok |-> TRUE, event |-> event]

\* stripe.webhooks.constructEvent: the mock SDK returns a mock event for any
\* payload; the Stripe SDK throws on a bad signature
constructEvent(event, sigValid) ==
    IF ~stripeApi.live
    THEN [ok |-> TRUE,
          event |-> [type |-> "mock_event", session |-> NoSession,
                     subscription |-> NoSubscription]]
    ELSE [ok |-> sigValid, event |-> event]

\* the switch over event.type, in the handler's try block
handleEvent(P, t, event, passcode) ==
    IF event.type = "checkout.session.completed"
    THEN IF event.session.subscription = ""
         THEN provisionDealerFromStripe(P, t, event.session, NoSubscription, passcode)
         ELSE IF event.session.subscription \notin DOMAIN stripeApi.subscriptions
         THEN Outcome(P, 500, 0, <<>>)
         ELSE provisionDealerFromStripe(P, t, event.session,
                  stripeApi.subscriptions[event.session.subscription], passcode)
    ELSE IF event.type \in SubscriptionTypes
    THEN LET subscription == event.subscription IN
         IF subscription.latest_invoice /\ subscription.customer \in DOMAIN stripeApi.sessions
         THEN provisionDealerFromStripe(P, t, stripeApi.sessions[subscription.customer],
                                        subscription, passcode)
         ELSE reconcileSubscription(P, subscription)
    ELSE IF event.type = "invoice.payment_failed"
    THEN LET byC == Matching(P, "stripe_customer_id", event.session.customer) IN
         IF Cardinality(byC) > 1 THEN Outcome(P, 500, 1, <<>>)
         ELSE IF byC # {} /\ P[TheRow(byC)].profile_email # ""
         THEN Outcome(P, 0, 1, <<"failed_payment">>)
         ELSE Outcome(P, 0, 1, <<>>)
    ELSE Outcome(P, 0, 0, <<>>)

\* POST /api/stripe/webhook, run at time t on the profiles table P
webhook(P, t, event, sigValid, passcode) ==
    IF ~stripeApi.secret THEN Outcome(P, 500, 0, <<>>)
    ELSE LET built == constructEvent(event, sigValid) IN
         IF ~built.ok THEN Outcome(P, 400, 0, <<>>)
         ELSE LET out == handleEvent(P, t, built.event, passcode) IN
              IF out.code = 0 THEN [out EXCEPT !.code = 200] ELSE out

\* whether this delivery would provision a profile (the model caps how many)
Provisions(event, sigValid) ==
    \E passcode \in GeneratedPasscodes :
        DOMAIN webhook(profiles, now, event, sigValid, passcode).profiles # DOMAIN profiles

StripeWebhook ==
    /\ \E event \in Events, sigValid \in BOOLEAN, passcode \in GeneratedPasscodes :
         LET out == webhook(profiles, now, event, sigValid, passcode) IN
         /\ Provisions(event, sigValid) => Cardinality(DOMAIN profiles) < MaxProvisioned
         /\ profiles' = out.profiles
         /\ resp' = Reply("webhook", out.code, out.calls, out.mails, {})
    /\ UNCHANGED <<vehicles, requests, resetTokens, now, stripeApi, inflight, hist>>

\* time passes
Tick ==
    /\ now < MaxNow
    /\ now' = now + 1
    /\ UNCHANGED <<profiles, vehicles, requests, resetTokens, stripeApi, inflight, resp, hist>>

StripeSubscriptions ==
    ("sub_1" :> [id |-> "sub_1", customer |-> "cus_1", status |-> "trialing",
                 trial_end |-> 5, latest_invoice |-> TRUE])
    @@ ("sub_2" :> [id |-> "sub_2", customer |-> "cus_1", status |-> "active",
                    trial_end |-> NullTime, latest_invoice |-> TRUE])

\* the environments the server may run in: no webhook secret, the mock SDK,
\* and Stripe with or without a checkout session listed for cus_1
StripeWorlds ==
    {[secret |-> FALSE, live |-> TRUE, sessions |-> <<>>, subscriptions |-> StripeSubscriptions],
     [secret |-> TRUE, live |-> FALSE, sessions |-> <<>>, subscriptions |-> StripeSubscriptions],
     [secret |-> TRUE, live |-> TRUE, sessions |-> <<>>, subscriptions |-> StripeSubscriptions],
     [secret |-> TRUE, live |-> TRUE,
      sessions |-> ("cus_1" :> [customer |-> "cus_1", subscription |-> "sub_1",
                                email |-> "n@x.io"]),
      subscriptions |-> StripeSubscriptions]}

-----------------------------------------------------------------------------
(* Public API *)

\* a dealerId path parameter: 0 is an id isValidDealerId rejects, a number is
\* DEALER-nnnn
BadDealerId == 0
DealerParams == {BadDealerId} \cup (1..(MaxDealers + 1))

\* the character class [a-zA-Z0-9_-]
IdChars ==
    {"a", "b", "c", "d", "e", "f", "g", "h", "i", "j", "k", "l", "m", "n", "o", "p", "q",
     "r", "s", "t", "u", "v", "w", "x", "y", "z",
     "A", "B", "C", "D", "E", "F", "G", "H", "I", "J", "K", "L", "M", "N", "O", "P", "Q",
     "R", "S", "T", "U", "V", "W", "X", "Y", "Z",
     "0", "1", "2", "3", "4", "5", "6", "7", "8", "9", "_", "-"}

MinDealerIdLen == 3
MaxDealerIdLen == 40

\* the greedy match of [a-zA-Z0-9_-]{0,most} from position i: how many
\* characters it consumes
RECURSIVE ClassRun(_, _, _)
ClassRun(text, i, most) ==
    IF most = 0 \/ i > Len(text) \/ text[i] \notin IdChars THEN 0
    ELSE 1 + ClassRun(text, i + 1, most - 1)

\* (mutant) the pattern without its end anchor: /^[a-zA-Z0-9_-]{3,40}/
isValidDealerIdUnanchored(text) ==
    ClassRun(text, 1, MaxDealerIdLen) >= MinDealerIdLen

\* isValidDealerId: /^[a-zA-Z0-9_-]{3,40}$/.test(text), on a sequence of
\* characters
isValidDealerIdText(text) ==
    LET run == ClassRun(text, 1, MaxDealerIdLen) IN
    run >= MinDealerIdLen /\ run = Len(text)

\* the text of a dealerId parameter: DEALER-000n, and "x!" for BadDealerId
DealerIdText(dealerId) ==
    IF dealerId = BadDealerId THEN <<"x", "!">>
    ELSE <<"D", "E", "A", "L", "E", "R", "-", "0", "0", "0">>
         \o <<(<<"1", "2", "3", "4", "5", "6", "7", "8", "9">>)[dealerId]>>

\* the validator's answer for each dealerId parameter of the model
DealerIdVerdicts == [d \in DealerParams |-> isValidDealerIdText(DealerIdText(d))]

isValidDealerId(dealerId) == DealerIdVerdicts[dealerId]

\* the strings given to the validator: runs of one character, of the lengths
\* around both limits, as they are or with the first or the last character
\* replaced
IdFill == {"a", "7"}

IdOdd == {"Z", "_", "-", "!", " ", ".", "LF"}

IdRun(ch, n) == [i \in 1..n |-> ch]

IdLens == (0..4) \cup (39..MaxIdLen)

DealerIdStrings ==
    {IdRun(ch, n) : ch \in IdFill, n \in IdLens}
    \cup UNION {{[IdRun(ch, n) EXCEPT ![k] = odd] :
                    ch \in IdFill, odd \in IdOdd, k \in {1, n}} : n \in IdLens \ {0}}

\* the validator applied to a string
ValidateDealerId ==
    /\ \E text \in DealerIdStrings :
         resp' = Reply("isValidDealerId", 0, 0, <<>>, {})
                 @@ [text |-> text, valid |-> isValidDealerIdText(text)]
    /\ UNCHANGED <<profiles, vehicles, requests, resetTokens, now, stripeApi, inflight, hist>>


\* cleanStr(v).toLowerCase() on the request types the model posts
RawTypes == {"absent", "wa", "Video", "walk-in", "phone"}

cleanLower(v) ==
    CASE v = "absent" -> ""
      [] v = "Video" -> "video"
      [] OTHER -> v

\* (mutant) an unknown type taken for whatsapp
mapRequestTypeLax(type) ==
    LET t == cleanLower(type) IN
    IF t \in {"live_video", "live video", "video", "live"} THEN "live_video"
    ELSE IF t \in {"walk_in", "walk-in", "walkin", "in_store", "in-store", "in person"}
    THEN "walk_in"
    ELSE "whatsapp"

\* mapRequestTypeToEnum: "" stands for null
mapRequestTypeToEnum(type) ==
    LET t == cleanLower(type) IN
    IF t \in {"whatsapp", "wa", "chat"} THEN "whatsapp"
    ELSE IF t \in {"live_video", "live video", "video", "live"} THEN "live_video"
    ELSE IF t \in {"walk_in", "walk-in", "walkin", "in_store", "in-store", "in person"}
    THEN "walk_in"
    ELSE ""

\* cleanStr on the customer names the model posts
RawNames == {"  ", "John Doe"}

cleanName(v) == IF v = "  " THEN "" ELSE v

\* phones are sequences of characters
Digits == {"0", "1", "2", "3", "4", "5", "6", "7", "8", "9"}

RawPhones == {<<"1", "2", "3">>,
              <<"+", "1", "2", "3", "4", "5", "6">>,
              <<"8", "7", "6", "-", "1", "2", "3", "-", "4", "5", "6", "7">>}

KeepsPhoneChar(ch) == ch \in Digits \cup {"+"}

\* normalizePhone: replace(/[^\d+]/g, "")
normalizePhone(phone) == SelectSeq(phone, KeepsPhoneChar)

\* (mutant) the archived filter left out
getVehiclesArchivedToo(dealerId, includeArchived, publicOnly) ==
    {v \in DOMAIN vehicles :
        /\ vehicles[v].dealer_id = dealerId
        /\ ~publicOnly \/ vehicles[v].availability}

\* getVehiclesForDealer(dealerId, { includeArchived, publicOnly })
getVehiclesForDealer(dealerId, includeArchived, publicOnly) ==
    {v \in DOMAIN vehicles :
        /\ vehicles[v].dealer_id = dealerId
        /\ includeArchived \/ ~vehicles[v].archived
        /\ ~publicOnly \/ vehicles[v].availability}

\* mapVehicleRow, for the modelled columns
mapVehicleRow(v) ==
    [vehicleId |-> v, dealerId |-> vehicles[v].dealer_id,
     archived |-> vehicles[v].archived, availability |-> vehicles[v].availability]

\* mapViewingRequestRow
mapViewingRequestRow(request) ==
    [dealerId |-> request.dealer_id, vehicleId |-> request.vehicle_id,
     type |-> request.type, status |-> request.status, source |-> request.source]

\* GET /api/public/dealer/:dealerId/vehicles
PublicGetVehicles ==
    /\ \E dealerId \in DealerParams, rawAll \in {"absent", "1", "0", "true"} :
         LET all == rawAll = "1"
             asked == [asked |-> [dealerId |-> dealerId, all |-> rawAll]]
         IN
         resp' = asked @@
           IF ~isValidDealerId(dealerId) THEN Reply("publicVehicles", 400, 0, <<>>, {})
           ELSE IF dealerId \notin DOMAIN profiles
           THEN Reply("publicVehicles", 404, 1, <<>>, {})
           ELSE IF isPausedDealer(profiles[dealerId])
           THEN Reply("publicVehicles", 403, 1, <<>>, {})
           ELSE Reply("publicVehicles", 200, 2, <<>>,
                      {mapVehicleRow(v) : v \in getVehiclesForDealer(dealerId, FALSE, ~all)})
    /\ UNCHANGED <<profiles, vehicles, requests, resetTokens, now, stripeApi, inflight, hist>>

\* (mutant) status and source taken from the body when it gives them
requestFieldsFromBody(dealerId, typeEnum, name, phone, safeVehicleId, extra) ==
    [dealer_id |-> dealerId, type |-> typeEnum,
     status |-> IF extra.status # "absent" THEN extra.status ELSE "new",
     name |-> name, phone |-> phone,
     source |-> IF extra.source # "absent" THEN extra.source ELSE "storefront",
     vehicle_id |-> safeVehicleId]

\* the fields object of the public request route; vehicle_id "" is no link
requestFields(dealerId, typeEnum, name, phone, safeVehicleId, extra) ==
    [dealer_id |-> dealerId, type |-> typeEnum, status |-> "new", name |-> name,
     phone |-> phone, source |-> "storefront", vehicle_id |-> safeVehicleId]

\* what the body supplies besides the fields the route reads
NoExtra == [status |-> "absent", source |-> "absent"]

BodyExtras == {NoExtra, [status |-> "closed", source |-> "admin"]}

\* the bodies the model posts
Bodies ==
    [requestType : RawTypes, customerName : RawNames, phone : RawPhones,
     vehicleId : VehicleIds \cup {""}, extra : BodyExtras]

\* the handler of POST /api/public/dealer/:dealerId/requests run on the
\* viewing requests R: the response and the table it leaves
publicCreateRequest(R, dealerId, body) ==
    LET typeEnum == mapRequestTypeToEnum(body.requestType)
        name == cleanName(body.customerName)
        phone == normalizePhone(body.phone)
        safeVehicleId ==
            IF /\ body.vehicleId # ""
               /\ body.vehicleId \in DOMAIN vehicles
               /\ vehicles[body.vehicleId].dealer_id = dealerId
            THEN body.vehicleId ELSE ""
        created == requestFields(dealerId, typeEnum, name, phone, safeVehicleId, body.extra)
        answer(code, calls, data, table) ==
            [code |-> code, calls |-> calls, data |-> data, requests |-> table]
    IN  IF ~isValidDealerId(dealerId) THEN answer(400, 0, {}, R)
        ELSE IF typeEnum = "" THEN answer(400, 0, {}, R)
        ELSE IF name = "" THEN answer(400, 0, {}, R)
        ELSE IF Len(phone) < 7 THEN answer(400, 0, {}, R)
        ELSE IF dealerId \notin DOMAIN profiles THEN answer(404, 1, {}, R)
        ELSE IF isPausedDealer(profiles[dealerId]) THEN answer(403, 1, {}, R)
        ELSE answer(201, IF body.vehicleId # "" THEN 3 ELSE 2,
                    {mapViewingRequestRow(created)},
                    R @@ ((Cardinality(DOMAIN R) + 1) :> created))

\* POST /api/public/dealer/:dealerId/requests
PublicCreateRequest ==
    /\ \E dealerId \in DealerParams, body \in Bodies :
         LET out == publicCreateRequest(requests, dealerId, body) IN
         /\ out.code = 201 => Cardinality(DOMAIN requests) < MaxRequests
         /\ requests' = out.requests
         /\ resp' = Reply("publicRequest", out.code, out.calls, <<>>, out.data)
                    @@ [posted |-> [requestType |-> body.requestType, extra |-> body.extra]]
    /\ UNCHANGED <<profiles, vehicles, resetTokens, now, stripeApi, inflight, hist>>

-----------------------------------------------------------------------------
(* Public request route of the Airtable revision (src/routes/public.js) *)

\* mapRequestTypeToAirtableLabel: "" stands for null
mapRequestTypeToAirtableLabel(type) ==
    LET t == cleanLower(type) IN
    IF t \in {"whatsapp", "wa", "chat"} THEN "WhatsApp"
    ELSE IF t \in {"live_video", "live video", "video", "live"} THEN "Live Video Viewing"
    ELSE IF t \in {"walk_in", "walk-in", "in_store", "in-store", "in person"}
    THEN "Walk-in"
    ELSE ""

\* the fields object of the Airtable request route: Vehicle is the linked
\* record and VehicleID the "Vehicle ID" text, "" when the field is not set
airtableRequestFields(dealerId, label, customerName, phone, vehicleRecordId, vehicleId) ==
    [Dealer |-> dealerId, RequestType |-> label, CustomerName |-> customerName,
     Phone |-> phone, Source |-> "Storefront", Status |-> "New",
     Vehicle |-> vehicleRecordId, VehicleID |-> vehicleId]

\* the handler of the Airtable POST /dealer/:dealerId/requests run on the
\* requests R: the response and the table it leaves
publicCreateRequestAirtable(R, dealerId, body) ==
    LET label == mapRequestTypeToAirtableLabel(body.requestType)
        customerName == cleanName(body.customerName)
        phone == normalizePhone(body.phone)
        vehicleRecordId ==
            IF /\ body.vehicleId # ""
               /\ body.vehicleId \in DOMAIN vehicles
               /\ vehicles[body.vehicleId].dealer_id = dealerId
            THEN body.vehicleId ELSE ""
        created == airtableRequestFields(dealerId, label, customerName, phone,
                                         vehicleRecordId, body.vehicleId)
        answer(code, table) == [code |-> code, requests |-> table]
    IN  IF ~isValidDealerId(dealerId) THEN answer(400, R)
        ELSE IF label = "" THEN answer(400, R)
        ELSE IF customerName = "" THEN answer(400, R)
        ELSE IF Len(phone) < 7 THEN answer(400, R)
        ELSE IF dealerId \notin DOMAIN profiles THEN answer(404, R)
        ELSE IF isPausedDealer(profiles[dealerId]) THEN answer(403, R)
        ELSE answer(201, R @@ ((Cardinality(DOMAIN R) + 1) :> created))

\* POST /api/public/dealer/:dealerId/requests (Airtable revision)
PublicCreateRequestAirtable ==
    /\ \E dealerId \in DealerParams, body \in Bodies :
         LET out == publicCreateRequestAirtable(requests, dealerId, body) IN
         /\ out.code = 201 => Cardinality(DOMAIN requests) < MaxRequests
         /\ requests' = out.requests
         /\ resp' = Reply("publicRequestAirtable", out.code, 0, <<>>, {})
    /\ UNCHANGED <<profiles, vehicles, resetTokens, now, stripeApi, inflight, hist>>

-----------------------------------------------------------------------------
(* Dealer request status *)

RawStatuses == {"absent", "new", "Contacted", "booked", "closed", "no_show", "bogus"}

\* normalizeRequestStatus: "" stands for null
normalizeRequestStatus(value) ==
    LET s == IF value = "absent" THEN "" ELSE IF value = "Contacted" THEN "contacted" ELSE value
    IN  IF s \in {"new", "contacted", "booked", "closed"} THEN s
        ELSE IF s \in {"no show", "noshow", "no_show"} THEN "no show"
        ELSE ""

\* update viewing_requests set status where request_id = requestId
updateViewingRequestByRequestId(requestId, status) ==
    [requests EXCEPT ![requestId].status = status]

\* POST /api/dealer/requests/:requestId/status; .single() fails when no row
\* has the request_id
DealerRequestStatus ==
    /\ \E token \in Tokens, requestId \in DOMAIN requests \cup {0}, rawStatus \in RawStatuses :
         LET code == requireActiveDealer(token)
             status == normalizeRequestStatus(rawStatus)
             by == [dealerId |-> token.dealerId, requestId |-> requestId]
         IN  IF code # 0
             THEN /\ resp' = Reply("requestStatus", code, authCalls(token), <<>>, {})
                  /\ UNCHANGED requests
             ELSE IF status = ""
             THEN /\ resp' = Reply("requestStatus", 400, 1, <<>>, {})
                  /\ UNCHANGED requests
             ELSE IF requestId \notin DOMAIN requests
             THEN /\ resp' = Reply("requestStatus", 500, 2, <<>>, {})
                  /\ UNCHANGED requests
             ELSE /\ requests' = updateViewingRequestByRequestId(requestId, status)
                  /\ resp' = Reply("requestStatus", 200, 2, <<>>,
                                   {mapViewingRequestRow(requests'[requestId])})
                             @@ [by |-> by]
    /\ UNCHANGED <<profiles, vehicles, resetTokens, now, stripeApi, inflight, hist>>

-----------------------------------------------------------------------------
(* Passcode reset *)

Emails == {"a@x.io", "b@x.io", "nobody@x.io", "not-an-email"}

isValidEmail(email) == email # "not-an-email"

NewPasscodes == {"", "123", "654321", "777777"}

\* the entries of the token map that have expired at time t
Expired(M, t) == {k \in DOMAIN M : M[k].expiresAt < t}

Without(M, keys) == [k \in DOMAIN M \ keys |-> M[k]]

\* the outcomes of transporter.sendMail
MailOutcomes == {"sent", "failed"}

\* sendEmail: a failed send is caught and reported in the result
sendEmail(outcome) == [success |-> outcome = "sent"]

\* getProfileByEmail: maybeSingle() reports an error when more than one row
\* matches, and unwrap throws it; row 0 is null
getProfileByEmail(P, email) ==
    LET found == Matching(P, "profile_email", email)
    IN  [error |-> Cardinality(found) > 1,
         row |-> IF Cardinality(found) = 1 THEN TheRow(found) ELSE 0]

ResetGenericMessage == "If an account exists, a reset link has been sent."

\* the status code and the body of POST /api/dealer/request-reset
requestResetAnswer(P, email, outcome) ==
    LET dealer == getProfileByEmail(P, email)
    IN  IF ~isValidEmail(email)
        THEN [code |-> 400, ok |-> FALSE, text |-> "Valid email is required"]
        ELSE IF dealer.error
        THEN [code |-> 500, ok |-> FALSE, text |-> "Internal Server Error"]
        ELSE IF dealer.row = 0
        THEN [code |-> 200, ok |-> TRUE, text |-> ResetGenericMessage]
        ELSE \* the result of the send is not looked at
             LET sent == sendEmail(outcome)
             IN  [code |-> 200, ok |-> TRUE, text |-> ResetGenericMessage]

\* POST /api/dealer/request-reset
RequestReset ==
    /\ \E email \in Emails, outcome \in MailOutcomes :
         LET dealer == getProfileByEmail(profiles, email)
             answer == requestResetAnswer(profiles, email, outcome)
             resetToken == hist.issued + 1
         IN  IF ~isValidEmail(email)
             THEN /\ resp' = Reply("requestReset", answer.code, 0, <<>>, {answer.text})
                  /\ UNCHANGED <<resetTokens, hist>>
             ELSE IF dealer.error \/ dealer.row = 0
             THEN /\ resp' = Reply("requestReset", answer.code, 1, <<>>, {answer.text})
                  /\ UNCHANGED <<resetTokens, hist>>
             ELSE /\ hist.issued < MaxTokens
                  /\ LET M == resetTokens @@ (resetToken :>
                                 [dealerId |-> dealer.row,
                                  expiresAt |-> now + ResetTtlHours])
                     IN  resetTokens' = Without(M, Expired(M, now))
                  /\ hist' = [hist EXCEPT !.issued = @ + 1]
                  /\ resp' = Reply("requestReset", answer.code, 1,
                                   <<"passcode_reset">>, {answer.text})
    /\ UNCHANGED <<profiles, vehicles, requests, now, stripeApi, inflight>>

\* (mutant) the expiry test left out
isExpiredNever(resetData, t) == FALSE

\* resetData.expiresAt < new Date()
isExpired(resetData, t) == resetData.expiresAt < t

\* POST /api/dealer/reset-passcode up to its await, run on the token map M at
\* time t: the status code (0 when the handler goes on to the upsert) and the
\* map it leaves.  Token 0 is an empty token.
resetPasscodeCheck(M, token, newPasscode, t) ==
    IF token = 0 THEN [code |-> 400, tokens |-> M]
    ELSE IF Len(newPasscode) < 6 THEN [code |-> 400, tokens |-> M]
    ELSE IF token \notin DOMAIN M THEN [code |-> 400, tokens |-> M]
    ELSE IF isExpired(M[token], t) THEN [code |-> 400, tokens |-> Without(M, {token})]
    ELSE [code |-> 0, tokens |-> M]

\* POST /api/dealer/reset-passcode up to its await: the body checks, the token
\* lookup and the expiry check
ResetPasscodeCheck(c) ==
    /\ inflight[c].pc = "idle"
    /\ \E token \in 0..MaxTokens, newPasscode \in NewPasscodes :
         LET out == resetPasscodeCheck(resetTokens, token, newPasscode, now)
         IN  IF out.code # 0
             THEN /\ Finish(c, Reply("resetPasscode", out.code, 0, <<>>, {}))
                  /\ resetTokens' = out.tokens
             ELSE /\ inflight' = [inflight EXCEPT ![c] =
                        [pc |-> "write", op |-> "resetPasscode",
                         dealerId |-> resetTokens[token].dealerId, vehicleId |-> "",
                         existing |-> "", body |-> <<token, newPasscode>>]]
                  /\ UNCHANGED <<resetTokens, resp>>
    /\ UNCHANGED <<profiles, vehicles, requests, now, stripeApi, hist>>

\* the awaited upsertProfile({ dealer_id, password })
ResetPasscodeWrite(c) ==
    LET r == inflight[c] IN
    /\ r.pc = "write" /\ r.op = "resetPasscode"
    /\ profiles' = upsertProfile(profiles, r.dealerId, [password |-> r.body[2]])
    /\ hist' = [hist EXCEPT !.rewrites =
                   (r.body[1] :> (IF r.body[1] \in DOMAIN @ THEN @[r.body[1]] + 1 ELSE 1)) @@ @]
    /\ inflight' = [inflight EXCEPT ![c].pc = "written"]
    /\ UNCHANGED <<vehicles, requests, resetTokens, now, stripeApi, resp>>

\* after the await: the token is deleted and the response sent
ResetPasscodeDone(c) ==
    LET r == inflight[c] IN
    /\ r.pc = "written" /\ r.op = "resetPasscode"
    /\ resetTokens' = Without(resetTokens, {r.body[1]})
    /\ Finish(c, Reply("resetPasscode", 200, 1, <<>>, {}))
    /\ UNCHANGED <<profiles, vehicles, requests, now, stripeApi, hist>>

-----------------------------------------------------------------------------
(* Dealer login and a guarded dealer route *)

\* req.body.dealerId of a login: absent, a dealer id, or an email address
LoginIdentities ==
    {[kind |-> "none", id |-> BadDealerId, email |-> ""]}
    \cup {[kind |-> "id", id |-> d, email |-> ""] : d \in DealerParams}
    \cup {[kind |-> "email", id |-> BadDealerId, email |-> "a@x.io"]}

\* req.body.passcode; "absent" is a body without one
RawPasscodes == {"absent", "111111", " 111111 ", "222222", "999999"}

\* cleanStr on the passcodes the model posts
cleanPasscode(v) ==
    CASE v = "absent" -> ""
      [] v = " 111111 " -> "111111"
      [] OTHER -> v

LoginBodies ==
    [identity : LoginIdentities, email : {"", "b@x.io", "not-an-email"},
     passcode : RawPasscodes]

\* signToken({ role: "dealer", dealerId })
signToken(role, dealerId) == [valid |-> TRUE, role |-> role, dealerId |-> dealerId]

\* (mutant) the passcode comparison left out
passcodeAlwaysAccepted(passcode, storedPasscode) == FALSE

\* passcode !== storedPasscode
passcodeMismatch(passcode, storedPasscode) == passcode # storedPasscode

\* the handler of POST /api/dealer/login: the status code, the data-store
\* calls made and the tokens issued
dealerLogin(body) ==
    LET dealerIdInput == IF body.identity.kind = "id" THEN body.identity.id ELSE BadDealerId
        hasDealerId == body.identity.kind = "id"
        emailCandidate == IF body.identity.kind = "email" THEN body.identity.email
                          ELSE body.email
        passcode == cleanPasscode(body.passcode)
        byId == hasDealerId /\ dealerIdInput \in DOMAIN profiles
        byEmail == Matching(profiles, "profile_email", emailCandidate)
        calls == IF ~hasDealerId THEN 1
                 ELSE IF byId \/ emailCandidate = "" THEN 1 ELSE 2
        answer(code, n, tokens) == [code |-> code, calls |-> n, tokens |-> tokens]
    IN  IF ~hasDealerId /\ emailCandidate = "" THEN answer(400, 0, {})
        ELSE IF hasDealerId /\ ~isValidDealerId(dealerIdInput) THEN answer(400, 0, {})
        ELSE IF emailCandidate # "" /\ ~isValidEmail(emailCandidate) THEN answer(400, 0, {})
        ELSE IF passcode = "" THEN answer(400, 0, {})
        ELSE IF ~byId /\ emailCandidate # "" /\ Cardinality(byEmail) > 1
        THEN answer(500, calls, {})
        ELSE IF ~byId /\ (emailCandidate = "" \/ byEmail = {}) THEN answer(401, calls, {})
        ELSE LET dealerId == IF byId THEN dealerIdInput ELSE TheRow(byEmail)
                 dealer == profiles[dealerId]
             IN  IF isPausedDealer(dealer) THEN answer(403, calls, {})
                 ELSE IF ~isSubscriptionActive(dealer) THEN answer(402, calls, {})
                 ELSE IF dealer.password = "" THEN answer(401, calls, {})
                 ELSE IF passcodeMismatch(passcode, dealer.password)
                 THEN answer(401, calls, {})
                 ELSE answer(200, calls, {signToken("dealer", dealerId)})

\* POST /api/dealer/login
DealerLogin ==
    /\ \E body \in LoginBodies :
         LET out == dealerLogin(body) IN
         resp' = Reply("login", out.code, out.calls, <<>>, out.tokens) @@ [posted |-> body]
    /\ UNCHANGED <<profiles, vehicles, requests, resetTokens, now, stripeApi, inflight, hist>>

\* GET /api/dealer/me, a route guarded by requireActiveDealer
DealerMe ==
    /\ \E token \in Tokens :
         LET code == requireActiveDealer(token) IN
         resp' = (IF code # 0 THEN Reply("me", code, authCalls(token), <<>>, {})
                  ELSE Reply("me", 200, 2, <<>>, {[dealerId |-> token.dealerId]}))
                 @@ [bearer |-> token]
    /\ UNCHANGED <<profiles, vehicles, requests, resetTokens, now, stripeApi, inflight, hist>>

-----------------------------------------------------------------------------
(* Passcode hashing (auth service of the Airtable revisions) *)

\* passcodes are sequences of characters; NUL is the character U+0000
PassChars == {"1", "2", "NUL"}

PasscodeStrings == UNION {[1..n -> PassChars] : n \in 1..MaxPassLen}

\* crypto.randomBytes(16)
Salts == {"salt1", "salt2"}

DefaultIterations == 120000

\* the block of HMAC-SHA256, in bytes
HmacBlockBytes == 64

\* HMAC's key preparation (RFC 2104): a key no longer than the block is padded
\* with zero bytes to the block; the passcodes of the model are all that short
hmacKey(passcode) ==
    [i \in 1..HmacBlockBytes |-> IF i <= Len(passcode) THEN passcode[i] ELSE "NUL"]

\* crypto.pbkdf2Sync(passcode, salt, iterations, 32, "sha256"): the derived key
\* is a function of the prepared HMAC key, the salt and the iteration count,
\* taken to be collision-free in them
pbkdf2Sync(passcode, salt, iterations) ==
    [key |-> hmacKey(passcode), salt |-> salt, iterations |-> iterations]

\* the decimal digits of a positive number, as template literals print it
RECURSIVE ToDigits(_)
ToDigits(n) == IF n < 10 THEN <<n>> ELSE Append(ToDigits(n \div 10), n % 10)

\* parseInt(digits, 10)
RECURSIVE parseInt(_)
parseInt(digits) ==
    IF digits = <<>> THEN 0
    ELSE 10 * parseInt(SubSeq(digits, 1, Len(digits) - 1)) + digits[Len(digits)]

\* buffer.toString("base64") and Buffer.from(text, "base64")
toBase64(buffer) == [base64 |-> buffer]

fromBase64(text) == text.base64

\* hashPasscode with the salt it drew: the stored string as the parts that its
\* "$" separators delimit (no part contains "$")
hashPasscode(passcode, salt) ==
    [scheme |-> "pbkdf2", iterations |-> ToDigits(DefaultIterations),
     salt |-> toBase64(salt),
     hash |-> toBase64(pbkdf2Sync(passcode, salt, DefaultIterations))]

\* verifyPasscode on a stored value of four parts
verifyPasscode(passcode, stored) ==
    IF stored.scheme # "pbkdf2" THEN FALSE
    ELSE LET iterations == parseInt(stored.iterations)
             salt == fromBase64(stored.salt)
             hashExpected == fromBase64(stored.hash)
         IN  IF iterations < 1 THEN FALSE
             ELSE pbkdf2Sync(passcode, salt, iterations) = hashExpected

\* a passcode is hashed and a passcode is verified against the stored value
HashAndVerify ==
    /\ \E p \in PasscodeStrings, q \in PasscodeStrings, salt \in Salts :
         LET stored == hashPasscode(p, salt) IN
         resp' = Reply("verifyPasscode", 0, 0, <<>>, {})
                 @@ [hashed |-> p, given |-> q, stored |-> stored,
                     verified |-> verifyPasscode(q, stored)]
    /\ UNCHANGED <<profiles, vehicles, requests, resetTokens, now, stripeApi, inflight, hist>>

-----------------------------------------------------------------------------
(* Dealer id generation on the text of the ids.  An id is the text after    *)
(* "DEALER-", a sequence of character codes: 0..9 are the digits and        *)
(* 10..15 the letters A..F, in the order the store sorts them.              *)

ScanLimit == 50
PadWidth == 4

\* text order of two ids
RECURSIVE TextBefore(_, _)
TextBefore(a, b) ==
    IF a = <<>> THEN b # <<>>
    ELSE IF b = <<>> THEN FALSE
    ELSE IF a[1] # b[1] THEN a[1] < b[1]
    ELSE TextBefore(Tail(a), Tail(b))

\* getLatestDealerId: like 'DEALER-%' order by dealer_id desc limit 1
getLatestDealerIdText(ids) ==
    IF ids = {} THEN [found |-> FALSE, suffix |-> <<>>]
    ELSE [found |-> TRUE,
          suffix |-> CHOOSE s \in ids : \A t \in ids \ {s} : TextBefore(t, s)]

\* the digits matched by (\d+) right after "DEALER-"
RECURSIVE LeadingDigits(_)
LeadingDigits(suffix) ==
    IF suffix = <<>> \/ suffix[1] > 9 THEN <<>>
    ELSE <<suffix[1]>> \o LeadingDigits(Tail(suffix))

\* (mutant) the number of the latest id ignored
nextNumberAlwaysOne(latest) == 1

\* nextNumber: 1, or Number(match[1]) + 1 when the latest id matches
nextNumberOf(latest) ==
    IF ~latest.found \/ LeadingDigits(latest.suffix) = <<>> THEN 1
    ELSE parseInt(LeadingDigits(latest.suffix)) + 1

\* String(n).padStart(4, "0")
padStart(digits, width) ==
    IF Len(digits) >= width THEN digits
    ELSE [i \in 1..(width - Len(digits)) |-> 0] \o digits

candidateId(n) == padStart(ToDigits(n), PadWidth)

\* generateNextDealerId on the ids the store holds; random is the text
\* crypto.randomUUID().slice(0, 8).toUpperCase() gives
generateNextDealerIdText(ids, random) ==
    LET nextNumber == nextNumberOf(getLatestDealerIdText(ids))
        free == {i \in 0..(ScanLimit - 1) : candidateId(nextNumber + i) \notin ids}
    IN  IF free = {} THEN random
        ELSE candidateId(nextNumber + (CHOOSE i \in free : \A j \in free : i <= j))

\* the values the random text takes in the model
RandomSuffixes == {<<10, 11, 12, 13, 14, 15, 1, 2>>, <<12, 0, 15, 15, 14, 14, 0, 0>>}

\* ids outside the sequence: DEALER-5, DEALER-ABCDEF12, DEALER-1A2B3C4D
OddSuffixes == {<<5>>, <<10, 11, 12, 13, 14, 15, 1, 2>>, <<1, 10, 2, 11, 3, 12, 4, 13>>}

\* the id tables of the model: a run of sequential ids, with some odd ones
IdTables ==
    {{candidateId(k) : k \in lo..(lo + n - 1)} \cup odd :
        lo \in {1, 9990}, n \in {0, 1, 10, 11, 49, 50, 60},
        odd \in SUBSET OddSuffixes}

GenerateDealerId ==
    /\ \E ids \in IdTables, random \in RandomSuffixes :
         resp' = Reply("generateNextDealerId", 0, 0, <<>>, {})
                 @@ [ids |-> ids, random |-> random,
                     dealerId |-> generateNextDealerIdText(ids, random)]
    /\ UNCHANGED <<profiles, vehicles, requests, resetTokens, now, stripeApi, inflight, hist>>

-----------------------------------------------------------------------------
(* Admin dealer route *)

\* requireAdmin: a matching x-admin-key, or a valid token with role admin
requireAdmin(keyMatches, token) ==
    IF keyMatches THEN 0
    ELSE IF ~token.valid THEN 401
    ELSE IF token.role # "admin" THEN 403
    ELSE 0

\* generatePasscode: six digits
GeneratedPasscode == "482913"

AdminDealerIds == {BadDealerId, 2, MaxDealers + 1}

\* bodies of POST /api/admin/dealers after cleanStr; dealerId 0 is an empty one
AdminDealerBodies ==
    [dealerId : AdminDealerIds \cup {0}, name : {"", "Dealer"}, status : {"", "paused"},
     profileEmail : {"", "a@x.io"}, passcode : {"", "123456"}]

\* the columns POST /api/admin/dealers writes; name, whatsapp and logo_url are
\* not columns of the model
adminDealerFields(body, existing) ==
    LET status == IF body.status = "" THEN "active" ELSE body.status
        passcode == IF ~existing /\ body.passcode = ""
                    THEN GeneratedPasscode ELSE body.passcode
        base == [status |-> status]
        mail == IF body.profileEmail # ""
                THEN [profile_email |-> body.profileEmail] ELSE <<>>
        pass == IF passcode # "" THEN [password |-> passcode] ELSE <<>>
    IN  base @@ mail @@ pass

\* POST /api/admin/dealers
AdminUpsertDealer ==
    /\ \E keyMatches \in BOOLEAN, token \in Tokens, body \in AdminDealerBodies :
         LET denied == requireAdmin(keyMatches, token)
         IN  IF denied # 0
             THEN /\ resp' = Reply("adminUpsertDealer", denied, 0, <<>>, {})
                  /\ UNCHANGED profiles
             ELSE IF body.dealerId = 0 \/ body.name = ""
             THEN /\ resp' = Reply("adminUpsertDealer", 400, 0, <<>>, {})
                  /\ UNCHANGED profiles
             ELSE IF ~isValidDealerId(body.dealerId)
             THEN /\ resp' = Reply("adminUpsertDealer", 400, 0, <<>>, {})
                  /\ UNCHANGED profiles
             ELSE /\ profiles' = upsertProfile(profiles, body.dealerId,
                        adminDealerFields(body, body.dealerId \in DOMAIN profiles))
                  /\ resp' = Reply("adminUpsertDealer", 200, 2, <<>>, {})
    /\ UNCHANGED <<vehicles, requests, resetTokens, now, stripeApi, inflight, hist>>

\* the profiles table POST /api/admin/dealers leaves for an admin's body
adminUpsertProfiles(P, body) ==
    IF body.dealerId = 0 \/ body.name = "" THEN P
    ELSE IF ~isValidDealerId(body.dealerId) THEN P
    ELSE upsertProfile(P, body.dealerId, adminDealerFields(body, body.dealerId \in DOMAIN P))

\* the bodies by which the admin pauses dealer 2 and makes it active again
AdminStatusBodies ==
    {[dealerId |-> 2, name |-> "Dealer", status |-> status, profileEmail |-> "",
      passcode |-> ""] : status \in {"paused", "active"}}

\* POST /api/admin/dealers with the admin key and a status for a dealer
AdminSetDealerStatus ==
    /\ \E body \in AdminStatusBodies :
         /\ requireAdmin(TRUE, [valid |-> FALSE, role |-> "", dealerId |-> 0]) = 0
         /\ isValidDealerId(body.dealerId)
         /\ profiles' = upsertProfile(profiles, body.dealerId,
                adminDealerFields(body, body.dealerId \in DOMAIN profiles))
         /\ resp' = Reply("adminUpsertDealer", 200, 2, <<>>, {})
    /\ UNCHANGED <<vehicles, requests, resetTokens, now, stripeApi, inflight, hist>>

-----------------------------------------------------------------------------
(* Admin vehicle routes (Airtable revision) *)

\* bodies of the admin vehicle routes after cleanStr; dealerId 0 is an empty one
AdminVehicleBodies ==
    [dealerId : {0, 1, MaxDealers + 1},
     archived : {"absent", "bool:true", "bool:false"},
     Availability : {"absent", "bool:true"}]

\* POST /api/admin/vehicles; vehicleId "" is an empty one
AdminCreateVehicle ==
    /\ \E keyMatches \in BOOLEAN, token \in Tokens,
          vehicleId \in VehicleIds \cup {""}, body \in AdminVehicleBodies :
         LET denied == requireAdmin(keyMatches, token)
             fields == [dealer_id |-> body.dealerId,
                        archived |-> body.archived = "bool:true",
                        availability |-> body.Availability = "bool:true"]
         IN  IF denied # 0
             THEN /\ resp' = Reply("adminCreateVehicle", denied, 0, <<>>, {})
                  /\ UNCHANGED vehicles
             ELSE IF body.dealerId = 0 \/ vehicleId = ""
             THEN /\ resp' = Reply("adminCreateVehicle", 400, 0, <<>>, {})
                  /\ UNCHANGED vehicles
             ELSE IF vehicleId \in DOMAIN vehicles
             THEN /\ resp' = Reply("adminCreateVehicle", 409, 1, <<>>, {})
                  /\ UNCHANGED vehicles
             ELSE /\ vehicles' = vehicles @@ (vehicleId :> fields)
                  /\ resp' = Reply("adminCreateVehicle", 201, 2, <<>>, {vehicleId})
    /\ UNCHANGED <<profiles, requests, resetTokens, now, stripeApi, inflight, hist>>

\* pickTruthy on the fields of the PATCH: an empty dealerId and a value that
\* is not a boolean are left out
adminPatchFields(body) ==
    (IF body.dealerId # 0 THEN [dealer_id |-> body.dealerId] ELSE <<>>)
    @@ (IF body.archived \in {"bool:true", "bool:false"}
        THEN [archived |-> body.archived = "bool:true"] ELSE <<>>)
    @@ (IF body.Availability \in {"bool:true", "bool:false"}
        THEN [availability |-> body.Availability = "bool:true"] ELSE <<>>)

\* PATCH /api/admin/vehicles/:vehicleId
AdminPatchVehicle ==
    /\ \E keyMatches \in BOOLEAN, token \in Tokens,
          vehicleId \in VehicleIds, body \in AdminVehicleBodies :
         LET denied == requireAdmin(keyMatches, token)
         IN  IF denied # 0
             THEN /\ resp' = Reply("adminPatchVehicle", denied, 0, <<>>, {})
                  /\ UNCHANGED vehicles
             ELSE IF vehicleId \notin DOMAIN vehicles
             THEN /\ resp' = Reply("adminPatchVehicle", 404, 1, <<>>, {})
                  /\ UNCHANGED vehicles
             ELSE /\ vehicles' = [vehicles EXCEPT ![vehicleId] = adminPatchFields(body) @@ @]
                  /\ resp' = Reply("adminPatchVehicle", 200, 2, <<>>, {vehicleId})
    /\ UNCHANGED <<profiles, requests, resetTokens, now, stripeApi, inflight, hist>>

-----------------------------------------------------------------------------
(* airtableFetch (src/services/airtable.js): one frame per call in flight *)

\* the statuses the external store answers with
StoreStatuses == {200, 429, 500}

MaxRetries == 3
SleepBaseMs == 800
SleepStepMs == 600

\* (mutant) every failed response retried
shouldRetryAnyFailure(status, attempt) == status # 200 /\ attempt < MaxRetries

\* res.status === 429 && attempt < 3
shouldRetry(status, attempt) == status = 429 /\ attempt < MaxRetries

\* sleep(800 + attempt * 600)
sleepMs(attempt) == SleepBaseMs + attempt * SleepStepMs

FetchDone == {"returned", "thrown"}

\* airtableFetch(url, opts) is called with attempt = 0
AirtableCall(c) ==
    /\ inflight[c].pc \in {"idle"} \cup FetchDone
    /\ inflight' = [inflight EXCEPT ![c] =
           [pc |-> "fetch", op |-> "airtableFetch", attempt |-> 0,
            statuses |-> <<>>, sleeps |-> <<>>]]
    /\ UNCHANGED <<profiles, vehicles, requests, resetTokens, now, stripeApi, resp, hist>>

\* await fetch(...) and the branch on its status: another attempt after a
\* sleep, the parsed body returned, or an error thrown for a response not ok
AirtableFetchStep(c) ==
    /\ inflight[c].pc = "fetch"
    /\ \E status \in StoreStatuses :
         inflight' = [inflight EXCEPT
             ![c].statuses = Append(@, status),
             ![c].pc = IF shouldRetry(status, inflight[c].attempt) THEN "sleep"
                       ELSE IF status = 200 THEN "returned"
                       ELSE "thrown"]
    /\ UNCHANGED <<profiles, vehicles, requests, resetTokens, now, stripeApi, resp, hist>>

\* the sleep ends and airtableFetch(url, opts, attempt + 1) is entered
AirtableWake(c) ==
    /\ inflight[c].pc = "sleep"
    /\ inflight' = [inflight EXCEPT
           ![c].sleeps = Append(@, sleepMs(inflight[c].attempt)),
           ![c].attempt = @ + 1,
           ![c].pc = "fetch"]
    /\ UNCHANGED <<profiles, vehicles, requests, resetTokens, now, stripeApi, resp, hist>>

-----------------------------------------------------------------------------
(* Admin dealers summary *)

\* the orders listProfiles may return the profiles in
Listings(P) ==
    {order \in [1..Cardinality(DOMAIN P) -> DOMAIN P] :
        \A i, j \in DOMAIN order : order[i] = order[j] => i = j}

\* one row of getDealersSummary, for the fields the sort and the route read;
\* counted are the requests listViewingRequests returns for the month
summaryRow(P, R, counted, dealerId) ==
    [dealerId |-> dealerId, status |-> P[dealerId].status,
     requests |-> Cardinality({r \in counted : R[r].dealer_id = dealerId})]

sortKey(row) == IF LowerStatus(row.status) = "active" THEN 0 ELSE 1

\* (mutant) the comparator without the active-first key
compareByRequestsOnly(a, b) == b.requests - a.requests

\* the comparator of rows.sort
compareRows(a, b) ==
    IF sortKey(a) # sortKey(b) THEN sortKey(a) - sortKey(b)
    ELSE b.requests - a.requests

\* Array.prototype.sort is stable: a row goes after the rows it does not precede
RECURSIVE insertRow(_, _)
insertRow(row, sorted) ==
    IF sorted = <<>> THEN <<row>>
    ELSE IF compareRows(row, sorted[1]) < 0 THEN <<row>> \o sorted
    ELSE <<sorted[1]>> \o insertRow(row, Tail(sorted))

RECURSIVE sortRows(_)
sortRows(rows) ==
    IF rows = <<>> THEN <<>>
    ELSE insertRow(rows[Len(rows)], sortRows(SubSeq(rows, 1, Len(rows) - 1)))

\* getDealersSummary(...).dealers
getDealersSummary(P, R, counted, order) ==
    sortRows([i \in DOMAIN order |-> summaryRow(P, R, counted, order[i])])

\* GET /api/admin/dealers/summary
AdminDealersSummary ==
    /\ \E keyMatches \in BOOLEAN, token \in Tokens,
          order \in Listings(profiles), counted \in SUBSET DOMAIN requests :
         LET denied == requireAdmin(keyMatches, token)
             dealers == getDealersSummary(profiles, requests, counted, order)
         IN  IF denied # 0
             THEN resp' = Reply("adminSummary", denied, 0, <<>>, {})
             ELSE resp' = Reply("adminSummary", 200, 3, <<>>, {})
                          @@ [dealers |-> dealers,
                              totals |-> [dealers |-> Len(dealers),
                                          activeDealers |-> Cardinality(
                                              {i \in DOMAIN dealers : sortKey(dealers[i]) = 0}),
                                          requests |-> Cardinality(counted)],
                              listed |-> order, counted |-> counted]
    /\ UNCHANGED <<profiles, vehicles, requests, resetTokens, now, stripeApi, inflight, hist>>

-----------------------------------------------------------------------------
(* verifyPasscode on any stored value.  A stored value is a string or not;  *)
(* a string is given by the parts its "$" separators delimit.  The text of  *)
(* the iterations part is a sequence of character codes: 0..9 the digits,   *)
(* 10..15 letters, 16 the minus sign.                                       *)

KeyBytes == 32

MinusSign == 16

\* buffer.length: a derived key has 32 bytes, any other buffer says its own
bufferLength(buffer) == IF "len" \in DOMAIN buffer THEN buffer.len ELSE KeyBytes

\* a decoded hash part that is no derived key, of the given length
OtherBuffer(len) == [key |-> <<>>, salt |-> "", iterations |-> 0, len |-> len]

\* parseInt(text, 10): an optional sign and the leading digits; NaN without them
parseIntText(text) ==
    LET negative == text # <<>> /\ text[1] = MinusSign
        digits == LeadingDigits(IF negative THEN Tail(text) ELSE text)
    IN  IF digits = <<>> THEN [nan |-> TRUE, value |-> 0]
        ELSE [nan |-> FALSE,
              value |-> IF negative THEN 0 - parseInt(digits) ELSE parseInt(digits)]

\* crypto.timingSafeEqual throws for buffers of different lengths
timingSafeEqual(a, b) ==
    IF bufferLength(a) # bufferLength(b) THEN "throws"
    ELSE IF a = b THEN "true" ELSE "false"

\* verifyPasscode of part_000: "true", "false" or "throws"
verifyPasscodeGuarded(passcode, stored) ==
    IF ~stored.isString \/ stored.parts = <<"">> THEN "false"
    ELSE IF Len(stored.parts) # 4 \/ stored.parts[1] # "pbkdf2" THEN "false"
    ELSE LET iterations == parseIntText(stored.parts[2])
             salt == fromBase64(stored.parts[3])
             hashExpected == fromBase64(stored.parts[4])
         IN  IF iterations.nan \/ iterations.value < 1 THEN "false"
             ELSE LET hash == pbkdf2Sync(passcode, salt, iterations.value)
                  IN  IF bufferLength(hash) # bufferLength(hashExpected) THEN "false"
                      ELSE timingSafeEqual(hash, hashExpected)

\* verifyPasscode of part_005: no test of the iterations or of the lengths;
\* crypto.pbkdf2Sync throws for iterations that are NaN or below 1
verifyPasscodeUnguarded(passcode, stored) ==
    IF ~stored.isString \/ stored.parts = <<"">> THEN "false"
    ELSE IF Len(stored.parts) # 4 \/ stored.parts[1] # "pbkdf2" THEN "false"
    ELSE LET iterations == parseIntText(stored.parts[2])
             salt == fromBase64(stored.parts[3])
             hashExpected == fromBase64(stored.parts[4])
         IN  IF iterations.nan \/ iterations.value < 1 THEN "throws"
             ELSE timingSafeEqual(pbkdf2Sync(passcode, salt, iterations.value), hashExpected)

\* iteration texts: "", "a", "0", "-5", "12a", "12", "120000"
IterationTexts ==
    {<<>>, <<10>>, <<0>>, <<MinusSign, 5>>, <<1, 2, 10>>, <<1, 2>>, ToDigits(DefaultIterations)}

\* the hash parts stored for an iterations text: the key of passcode "1" or
\* of passcode "2" under the count parseInt reads, and buffers of 2 and 0 bytes
HashParts(text) ==
    LET iterations == IF parseIntText(text).nan THEN DefaultIterations
                      ELSE parseIntText(text).value
    IN  {toBase64(pbkdf2Sync(<<"1">>, "salt1", iterations)),
         toBase64(pbkdf2Sync(<<"2">>, "salt1", iterations)),
         toBase64(OtherBuffer(2)), toBase64(OtherBuffer(0))}

\* the stored values of the model: a value that is no string, the empty
\* string, and strings of three, four and five parts
StoredValues ==
    {[isString |-> FALSE, parts |-> <<>>], [isString |-> TRUE, parts |-> <<"">>]}
    \cup UNION {UNION {
           {[isString |-> TRUE, parts |-> <<scheme, text, toBase64("salt1"), hash>>],
            [isString |-> TRUE, parts |-> <<scheme, text, toBase64("salt1")>>],
            [isString |-> TRUE, parts |-> <<scheme, text, toBase64("salt1"), hash, hash>>]}
           : hash \in HashParts(text)}
         : scheme \in {"pbkdf2", "PBKDF2", "bcrypt"}, text \in IterationTexts}

\* a passcode is verified against a stored value by both revisions
VerifyStored ==
    /\ \E passcode \in {<<"1">>, <<"2">>}, stored \in StoredValues :
         resp' = Reply("verifyStored", 0, 0, <<>>, {})
                 @@ [given |-> passcode, stored |-> stored,
                     guarded |-> verifyPasscodeGuarded(passcode, stored),
                     unguarded |-> verifyPasscodeUnguarded(passcode, stored)]
    /\ UNCHANGED <<profiles, vehicles, requests, resetTokens, now, stripeApi, inflight, hist>>

-----------------------------------------------------------------------------
(* checkout.session.completed, one data-store call at a time.  Each await   *)
(* of provisionDealerFromStripe is a step, so that two deliveries on two    *)
(* connections interleave between their calls.                              *)

ProvisionCustomers == {"cus_1", "cus_2"}

\* the subscription Stripe holds for each customer
ProvisionSubscriptions ==
    ("sub_1" :> [id |-> "sub_1", customer |-> "cus_1", status |-> "trialing",
                 trial_end |-> 5, latest_invoice |-> TRUE])
    @@ ("sub_2" :> [id |-> "sub_2", customer |-> "cus_2", status |-> "active",
                    trial_end |-> NullTime, latest_invoice |-> TRUE])

ProvisionWorld ==
    [secret |-> TRUE, live |-> TRUE, sessions |-> <<>>, subscriptions |-> ProvisionSubscriptions]

\* the checkout sessions delivered: with the customer's subscription or without
ProvisionSessions ==
    {s \in [customer : ProvisionCustomers, subscription : DOMAIN ProvisionSubscriptions \cup {""},
            email : {""}] :
        s.subscription # "" => ProvisionSubscriptions[s.subscription].customer = s.customer}

ProvisionPasscodes == {"100000", "200000"}

\* the ids crypto.randomUUID may give when the fifty candidates are taken
RandomDealerIds == {MaxDealers + 60}

\* the position of a delivery between two calls
Provisioning(pc, session, dealerId, scanned, dealer) ==
    [pc |-> pc, op |-> "provision", session |-> session, dealerId |-> dealerId,
     scanned |-> scanned, dealer |-> dealer]

\* const subscription = session.subscription ? retrieve(...) : null
retrievedSubscription(session) ==
    IF session.subscription = "" THEN NoSubscription
    ELSE stripeApi.subscriptions[session.subscription]

\* the delivery arrives and awaits getProfileByStripeCustomerId
ProvisionByCustomer(c) ==
    /\ inflight[c].pc = "idle"
    /\ \E session \in ProvisionSessions :
         LET byC == Matching(profiles, "stripe_customer_id", session.customer) IN
         /\ \A o \in Conns \ {c} :
                inflight[o].op = "provision" => inflight[o].session.customer # session.customer
         /\ Cardinality(DOMAIN profiles) < MaxDealers
         /\ IF Cardinality(byC) > 1
            THEN Finish(c, Reply("provision", 500, 1, <<>>, {}))
            ELSE /\ inflight' = [inflight EXCEPT ![c] =
                       IF byC # {}
                       THEN Provisioning("update", session, TheRow(byC), 0, profiles[TheRow(byC)])
                       ELSE IF session.subscription # ""
                       THEN Provisioning("bySubscription", session, 0, 0, ProfileDefaults)
                       ELSE Provisioning("latest", session, 0, 0, ProfileDefaults)]
                 /\ UNCHANGED resp
    /\ UNCHANGED <<profiles, vehicles, requests, resetTokens, now, stripeApi, hist>>

\* await getProfileByStripeSubscriptionId
ProvisionBySubscription(c) ==
    /\ inflight[c].pc = "bySubscription"
    /\ LET session == inflight[c].session
           byS == Matching(profiles, "stripe_subscription_id", session.subscription)
       IN  IF Cardinality(byS) > 1
           THEN Finish(c, Reply("provision", 500, 2, <<>>, {}))
           ELSE /\ inflight' = [inflight EXCEPT ![c] =
                      IF byS # {}
                      THEN Provisioning("update", session, TheRow(byS), 0, profiles[TheRow(byS)])
                      ELSE Provisioning("latest", session, 0, 0, ProfileDefaults)]
                /\ UNCHANGED resp
    /\ UNCHANGED <<profiles, vehicles, requests, resetTokens, now, stripeApi, hist>>

\* generateNextDealerId: await getLatestDealerId
ProvisionLatest(c) ==
    /\ inflight[c].pc = "latest"
    /\ inflight' = [inflight EXCEPT ![c] =
           Provisioning("candidate", @.session, getLatestDealerId(profiles) + 1, 0,
                        ProfileDefaults)]
    /\ UNCHANGED <<profiles, vehicles, requests, resetTokens, now, stripeApi, resp, hist>>

\* generateNextDealerId: await getProfileByDealerId(candidate), up to fifty
\* times, then the random id
ProvisionCandidate(c) ==
    /\ inflight[c].pc = "candidate"
    /\ LET job == inflight[c] IN
       \E random \in RandomDealerIds :
         inflight' = [inflight EXCEPT ![c] =
             IF job.dealerId \notin DOMAIN profiles
             THEN Provisioning("upsert", job.session, job.dealerId, job.scanned, ProfileDefaults)
             ELSE IF job.scanned + 1 < ScanLimit
             THEN Provisioning("candidate", job.session, job.dealerId + 1, job.scanned + 1,
                               ProfileDefaults)
             ELSE Provisioning("upsert", job.session, random, job.scanned + 1,
                               ProfileDefaults)]
    /\ UNCHANGED <<profiles, vehicles, requests, resetTokens, now, stripeApi, resp, hist>>

\* the columns written for a new dealer
newDealerFields(session, subscription, t, passcode) ==
    [status |-> "active", password |-> passcode,
     trial_ends_at |-> IF subscription.trial_end # NullTime THEN subscription.trial_end
                       ELSE t + TrialDefaultHours,
     stripe_subscription_status |-> IF subscription.status # "" THEN subscription.status
                                    ELSE "trialing"]
    @@ Field("profile_email", session.email # "", session.email)
    @@ Field("stripe_customer_id", session.customer # "", session.customer)
    @@ Field("stripe_subscription_id", session.subscription # "", session.subscription)

\* the columns written for a dealer found by the lookups
foundDealerFields(session, subscription, t, dealer) ==
    [trial_ends_at |-> IF subscription.trial_end # NullTime THEN subscription.trial_end
                       ELSE t + TrialDefaultHours,
     stripe_subscription_status |-> IF subscription.status # "" THEN subscription.status
                                    ELSE "trialing"]
    @@ Field("profile_email", session.email # "" \/ dealer.profile_email # "",
             IF session.email # "" THEN session.email ELSE dealer.profile_email)
    @@ Field("stripe_customer_id", session.customer # "" \/ dealer.stripe_customer_id # "",
             IF session.customer # "" THEN session.customer ELSE dealer.stripe_customer_id)
    @@ Field("stripe_subscription_id",
             session.subscription # "" \/ dealer.stripe_subscription_id # "",
             IF session.subscription # "" THEN session.subscription
             ELSE dealer.stripe_subscription_id)

\* what the handler returned for a customer: { dealer, passcode }
Provisioned(customer, dealerId, passcode) ==
    [hist EXCEPT !.provisioned =
        (customer :> [dealerId |-> dealerId, passcode |-> passcode]) @@ @]

\* const passcode = generatePasscode(); await upsertProfile({...})
ProvisionUpsert(c) ==
    /\ inflight[c].pc = "upsert"
    /\ LET job == inflight[c] IN
       \E passcode \in ProvisionPasscodes :
         /\ profiles' = upsertProfile(profiles, job.dealerId,
                            newDealerFields(job.session, retrievedSubscription(job.session),
                                            now, passcode))
         /\ hist' = Provisioned(job.session.customer, job.dealerId, passcode)
         /\ Finish(c, Reply("provision", 200, 0, <<>>, {}))
    /\ UNCHANGED <<vehicles, requests, resetTokens, now, stripeApi>>

\* the update of a dealer found by the lookups, from the row read then
ProvisionUpdate(c) ==
    /\ inflight[c].pc = "update"
    /\ LET job == inflight[c] IN
       /\ profiles' = upsertProfile(profiles, job.dealerId,
                          foundDealerFields(job.session, retrievedSubscription(job.session),
                                            now, job.dealer))
       /\ Finish(c, Reply("provision", 200, 0, <<>>, {}))
    /\ UNCHANGED <<vehicles, requests, resetTokens, now, stripeApi, hist>>

-----------------------------------------------------------------------------
(* Referral reward *)

\* the referral codes a checkout may carry: of dealer 1, of dealer 2, of no
\* dealer, and none
ReferralCodes == {"REF-1", "REF-2", "REF-9", ""}

\* generateReferralCode: the codes the random generator may give a new dealer
NewReferralCodes == {"REF-N"}

\* the referral columns of a row; the table gives created_at its time of insert
ReferralColumns(code, referredBy, createdAt) ==
    [referral_code |-> code, referral_credits |-> 0, referred_by |-> referredBy,
     created_at |-> createdAt]

\* listProfiles({ referral_code }): the argument is destructured for status
\* only, so every row is returned, newest first; the rows that may come first
listProfilesFirst(P, referralCode) ==
    {d \in DOMAIN P : \A e \in DOMAIN P : P[e].created_at <= P[d].created_at}

\* processReferralReward(referralCode), referrer being profiles[0]
processReferralReward(P, referralCode, referrer) ==
    upsertProfile(P, referrer, [referral_credits |-> P[referrer].referral_credits + 1])

\* provisionDealerFromStripe up to the upsert: the table with the new dealer,
\* or with the found dealer updated
checkoutProfiles(P, t, session, referralCode, passcode, newCode) ==
    LET out == provisionDealerFromStripe(P, t, session, retrievedSubscription(session),
                                         passcode)
        created == DOMAIN out.profiles \ DOMAIN P
    IN  IF created = {} THEN out.profiles
        ELSE upsertProfile(out.profiles, TheRow(created),
                           ReferralColumns(newCode, referralCode, t))

\* the tables a checkout with a referral code may leave: the reward runs only
\* for a new dealer and a code that is not empty
checkoutWithReferral(P, t, session, referralCode, passcode, newCode) ==
    LET P1 == checkoutProfiles(P, t, session, referralCode, passcode, newCode) IN
    IF DOMAIN P1 = DOMAIN P \/ referralCode = "" THEN {P1}
    ELSE {processReferralReward(P1, referralCode, referrer) :
             referrer \in listProfilesFirst(P1, referralCode)}

\* a checkout.session.completed delivery whose metadata carries a referral code
ReferredCheckout ==
    /\ \E session \in ProvisionSessions, referralCode \in ReferralCodes,
          newCode \in NewReferralCodes, passcode \in GeneratedPasscodes :
         \E P2 \in checkoutWithReferral(profiles, now, session, referralCode, passcode, newCode) :
           /\ profiles' = P2
           /\ resp' = Reply("checkout", 200, 0, <<>>, {}) @@ [referralCode |-> referralCode]
    /\ UNCHANGED <<vehicles, requests, resetTokens, now, stripeApi, inflight, hist>>

-----------------------------------------------------------------------------
(* Specifications *)

NewProfile(status, email, password) ==
    [status |-> status, profile_email |-> email, password |-> password,
     stripe_customer_id |-> "", stripe_subscription_id |-> "",
     stripe_subscription_status |-> "", trial_ends_at |-> NullTime]

NoStripe == [secret |-> FALSE, live |-> FALSE, sessions |-> <<>>, subscriptions |-> <<>>]

ThreeDealers ==
    (1 :> NewProfile("active", "a@x.io", "111111"))
    @@ (2 :> NewProfile("active", "b@x.io", "222222"))
    @@ (3 :> NewProfile("paused", "", "333333"))

\* The dealer vehicle routes, with two active dealers and a paused one
InitVehicles ==
    /\ profiles = ThreeDealers
    /\ vehicles = <<>>
    /\ requests = <<>>
    /\ resetTokens = <<>>
    /\ now = 1
    /\ stripeApi = NoStripe
    /\ inflight = [c \in Conns |-> Idle]
    /\ resp = NoResp
    /\ hist = NoHist

NextVehicles ==
    \E c \in Conns :
        \/ PostVehicleAuth(c)
        \/ PostVehicleLookup(c)
        \/ PostVehicleWrite(c)
        \/ ArchiveAuth(c)
        \/ ArchiveLookup(c)
        \/ ArchiveWrite(c)
        \/ PatchVehicleLookup(c)
        \/ PatchVehicleWrite(c)

SpecVehicles == InitVehicles /\ [][NextVehicles]_vars

\* The Stripe webhook over an empty profiles table
InitWebhook ==
    /\ profiles = <<>>
    /\ vehicles = <<>>
    /\ requests = <<>>
    /\ resetTokens = <<>>
    /\ now = 1
    /\ stripeApi \in StripeWorlds
    /\ inflight = [c \in Conns |-> Idle]
    /\ resp = NoResp
    /\ hist = NoHist

NextWebhook == StripeWebhook

SpecWebhook == InitWebhook /\ [][NextWebhook]_vars

\* The public routes: dealer 1 is active and owns VEH-1, dealer 3 is paused
\* and owns VEH-2
InitPublic ==
    /\ profiles = ThreeDealers
    /\ \E archived, availability \in BOOLEAN :
         vehicles = ("VEH-1" :> [dealer_id |-> 1, archived |-> archived,
                                 availability |-> availability])
                    @@ ("VEH-2" :> [dealer_id |-> 3, archived |-> FALSE,
                                    availability |-> TRUE])
    /\ requests = <<>>
    /\ resetTokens = <<>>
    /\ now = 1
    /\ stripeApi = NoStripe
    /\ inflight = [c \in Conns |-> Idle]
    /\ resp = NoResp
    /\ hist = NoHist

NextPublic == PublicGetVehicles \/ PublicCreateRequest

SpecPublic == InitPublic /\ [][NextPublic]_vars

\* The dealer request-status route over one request of each active dealer
InitRequests ==
    /\ profiles = ThreeDealers
    /\ vehicles = <<>>
    /\ requests = (1 :> requestFields(1, "whatsapp", "John Doe", <<"8", "7", "6", "1", "2", "3", "4">>, "", NoExtra))
                  @@ (2 :> requestFields(2, "walk_in", "Jane Roe", <<"8", "7", "6", "7", "6", "5", "4">>, "", NoExtra))
    /\ resetTokens = <<>>
    /\ now = 1
    /\ stripeApi = NoStripe
    /\ inflight = [c \in Conns |-> Idle]
    /\ resp = NoResp
    /\ hist = NoHist

NextRequests == DealerRequestStatus

SpecRequests == InitRequests /\ [][NextRequests]_vars

\* The passcode reset routes
InitReset ==
    /\ profiles = ThreeDealers
    /\ vehicles = <<>>
    /\ requests = <<>>
    /\ resetTokens = <<>>
    /\ now = 1
    /\ stripeApi = NoStripe
    /\ inflight = [c \in Conns |-> Idle]
    /\ resp = NoResp
    /\ hist = NoHist

NextReset ==
    \/ RequestReset
    \/ Tick
    \/ \E c \in Conns :
        \/ ResetPasscodeCheck(c)
        \/ ResetPasscodeWrite(c)
        \/ ResetPasscodeDone(c)

SpecReset == InitReset /\ [][NextReset]_vars

\* Login and the guard: dealer 1 in every combination of status, subscription
\* status, trial end and stored passcode; dealer 2 active; dealer 3 paused
InitAuth ==
    /\ \E status \in {"active", "paused"}, subscription \in {"", "trialing", "past_due"},
          trialEndsAt \in {NullTime, 2}, password \in {"111111", ""} :
         profiles = [ThreeDealers EXCEPT
                        ![1].status = status,
                        ![1].stripe_subscription_status = subscription,
                        ![1].trial_ends_at = trialEndsAt,
                        ![1].password = password]
    /\ vehicles = <<>>
    /\ requests = <<>>
    /\ resetTokens = <<>>
    /\ now = 1
    /\ stripeApi = NoStripe
    /\ inflight = [c \in Conns |-> Idle]
    /\ resp = NoResp
    /\ hist = NoHist

NextAuth == DealerLogin \/ DealerMe \/ Tick

SpecAuth == InitAuth /\ [][NextAuth]_vars

\* The passcode hash on its own
InitPasscode ==
    /\ profiles = <<>>
    /\ vehicles = <<>>
    /\ requests = <<>>
    /\ resetTokens = <<>>
    /\ now = 1
    /\ stripeApi = NoStripe
    /\ inflight = [c \in Conns |-> Idle]
    /\ resp = NoResp
    /\ hist = NoHist

NextPasscode == HashAndVerify

SpecPasscode == InitPasscode /\ [][NextPasscode]_vars

\* The dealer-id validator on its own
NextDealerId == ValidateDealerId

SpecDealerId == InitPasscode /\ [][NextDealerId]_vars

\* The reset request next to the admin route that writes profile emails
NextResetAdmin == RequestReset \/ AdminUpsertDealer

SpecResetAdmin == InitReset /\ [][NextResetAdmin]_vars

\* The admin vehicle routes of the Airtable revision
NextAdminVehicles == AdminCreateVehicle \/ AdminPatchVehicle

SpecAdminVehicles == InitVehicles /\ [][NextAdminVehicles]_vars

\* The public request route of the Airtable revision
NextPublicAirtable == PublicCreateRequestAirtable

SpecPublicAirtable == InitPublic /\ [][NextPublicAirtable]_vars

\* Calls of airtableFetch against a store that answers 200, 429 or 500
NextAirtable ==
    \E c \in Conns : AirtableCall(c) \/ AirtableFetchStep(c) \/ AirtableWake(c)

SpecAirtable == InitVehicles /\ [][NextAirtable]_vars

\* every pending fetch is answered and every timer fires
SpecAirtableFair ==
    /\ SpecAirtable
    /\ \A c \in Conns : WF_vars(AirtableFetchStep(c)) /\ WF_vars(AirtableWake(c))

\* generateNextDealerId over the id tables
NextDealerIdGen == GenerateDealerId

SpecDealerIdGen == InitPasscode /\ [][NextDealerIdGen]_vars

\* The admin summary over three dealers, active or paused, and up to two
\* viewing requests
RequestOwners == {<<>>} \cup [1..1 -> DealerNums] \cup [1..2 -> DealerNums]

InitSummary ==
    /\ \E statuses \in [DealerNums -> {"active", "paused"}] :
         profiles = [d \in DealerNums |-> [ThreeDealers[d] EXCEPT !.status = statuses[d]]]
    /\ vehicles = <<>>
    /\ \E owners \in RequestOwners :
         requests = [r \in DOMAIN owners |->
                        requestFields(owners[r], "whatsapp", "John Doe",
                                      <<"8", "7", "6", "1", "2", "3", "4">>, "", NoExtra)]
    /\ resetTokens = <<>>
    /\ now = 1
    /\ stripeApi = NoStripe
    /\ inflight = [c \in Conns |-> Idle]
    /\ resp = NoResp
    /\ hist = NoHist

NextSummary == AdminDealersSummary

SpecSummary == InitSummary /\ [][NextSummary]_vars

\* verifyPasscode over well-formed and malformed stored values
NextStored == VerifyStored

SpecStored == InitPasscode /\ [][NextStored]_vars

\* Checkout deliveries for two customers on two connections, over an empty
\* profiles table or one that holds a dealer created by the admin
InitProvision ==
    /\ profiles \in {<<>>, (1 :> NewProfile("active", "a@x.io", "111111"))}
    /\ vehicles = <<>>
    /\ requests = <<>>
    /\ resetTokens = <<>>
    /\ now = 1
    /\ stripeApi = ProvisionWorld
    /\ inflight = [c \in Conns |-> Idle]
    /\ resp = NoResp
    /\ hist = [issued |-> 0, rewrites |-> <<>>, provisioned |-> <<>>]

NextProvision ==
    \E c \in Conns :
        \/ ProvisionByCustomer(c)
        \/ ProvisionBySubscription(c)
        \/ ProvisionLatest(c)
        \/ ProvisionCandidate(c)
        \/ ProvisionUpsert(c)
        \/ ProvisionUpdate(c)

SpecProvision == InitProvision /\ [][NextProvision]_vars

\* Referred checkouts: dealers 1 and 2 exist and own REF-1 and REF-2
InitReferral ==
    /\ profiles = (1 :> (ReferralColumns("REF-1", "", 0) @@ NewProfile("active", "a@x.io", "111111")))
                  @@ (2 :> (ReferralColumns("REF-2", "", 0) @@ NewProfile("active", "", "222222")))
    /\ vehicles = <<>>
    /\ requests = <<>>
    /\ resetTokens = <<>>
    /\ now = 1
    /\ stripeApi = ProvisionWorld
    /\ inflight = [c \in Conns |-> Idle]
    /\ resp = NoResp
    /\ hist = NoHist

NextReferral == ReferredCheckout \/ Tick

SpecReferral == InitReferral /\ [][NextReferral]_vars

\* The dealer vehicle routes, one request at a time, while the admin pauses
\* and resumes dealer 2
NextPaused ==
    \/ AdminSetDealerStatus
    \/ \E c \in {"c1"} :
        \/ PostVehicleAuth(c)
        \/ PostVehicleLookup(c)
        \/ PostVehicleWrite(c)
        \/ PatchVehicleLookup(c)
        \/ PatchVehicleWrite(c)

SpecPaused == InitVehicles /\ [][NextPaused]_vars

-----------------------------------------------------------------------------
(* Claims about the dealer vehicle routes *)

\* a step in which connection c completes its write to vehicle v
WritesVehicle(c, v) ==
    /\ inflight[c].pc = "write"
    /\ inflight'[c].pc = "idle"
    /\ inflight[c].vehicleId = v

\* C1: once a vehicle has archived = true, no dealer request (create-or-update,
\* patch, archive) sets archived back to false.
C1_ArchivedMonotonic ==
    [][\A v \in DOMAIN vehicles : vehicles[v].archived => vehicles'[v].archived]_vars

-----------------------------------------------------------------------------
(* Claims about the Stripe webhook *)

\* the deliveries of customer.subscription.deleted for a canceled subscription
\* whose customer or subscription id matches a profile
CanceledDeliveries ==
    {e \in Events :
        /\ e.type = "customer.subscription.deleted"
        /\ e.subscription.status = "canceled"
        /\ \/ Matching(profiles, "stripe_customer_id", e.subscription.customer) # {}
           \/ Matching(profiles, "stripe_subscription_id", e.subscription.id) # {}}

\* C2: a signature-valid customer.subscription.deleted event with status
\* canceled, for a customer or subscription id matching a profile, leaves that
\* profile paused and makes exactly one suspension-email attempt, whether or not
\* a checkout session is found for the customer.
C2_CanceledPausesAndMails ==
    (stripeApi.secret /\ stripeApi.live) =>
        \A e \in CanceledDeliveries, passcode \in GeneratedPasscodes :
            LET out == webhook(profiles, now, e, TRUE, passcode)
                matched == findStripeDealer(profiles, e.subscription.customer,
                                            e.subscription.id).id
            IN  /\ out.code = 200
                /\ out.profiles[matched].status = "paused"
                /\ out.mails = <<"suspension">>

\* the events whose redelivery the handler is to absorb
ProvisioningEvents ==
    {e \in Events : e.type = "checkout.session.completed" \/ e.type \in SubscriptionTypes}

SubscriptionFields(row) ==
    <<row.status, row.stripe_customer_id, row.stripe_subscription_id,
      row.stripe_subscription_status>>

\* C3: delivering the same signature-valid event twice in sequence creates no
\* profile row beyond those of the first delivery and leaves the status and the
\* subscription fields of every profile as the first delivery left them.
C3_RedeliveryIdempotent ==
    (stripeApi.secret /\ stripeApi.live) =>
        \A e \in ProvisioningEvents, passcode \in GeneratedPasscodes, t \in now..MaxNow :
            LET first == webhook(profiles, now, e, TRUE, passcode)
                second == webhook(first.profiles, t, e, TRUE, passcode)
            IN  first.code = 200 =>
                    /\ DOMAIN second.profiles = DOMAIN first.profiles
                    /\ \A d \in DOMAIN first.profiles :
                         SubscriptionFields(second.profiles[d])
                             = SubscriptionFields(first.profiles[d])

\* C7: a webhook request with a bad signature causes no profile lookup, no
\* profile write and no email, whatever event it carries, and where the Stripe
\* SDK verifies signatures it is answered 400; the last answer of 400 reports
\* no data-store call and no mail.
C7_BadSignatureNotProcessed ==
    /\ \A e \in Events, passcode \in GeneratedPasscodes :
         LET out == webhook(profiles, now, e, FALSE, passcode) IN
         /\ out.calls = 0
         /\ out.mails = <<>>
         /\ out.profiles = profiles
         /\ (stripeApi.secret /\ stripeApi.live) => out.code = 400
    /\ (resp.op = "webhook" /\ resp.code = 400) => (resp.dbCalls = 0 /\ resp.mails = <<>>)

\* C7 witness: a delivery was answered 400 while a profile exists that the
\* events of the model match.
C7_Witness ==
    /\ resp.op = "webhook" /\ resp.code = 400
    /\ stripeApi.secret /\ stripeApi.live
    /\ \E d \in DOMAIN profiles : profiles[d].stripe_customer_id \in Customers

-----------------------------------------------------------------------------
(* Claims about the public routes *)

\* the request types the route accepts, after trimming and lower-casing
AcceptedAliases ==
    {"whatsapp", "wa", "chat", "live_video", "live video", "video", "live",
     "walk_in", "walk-in", "walkin", "in_store", "in-store", "in person"}

CanonicalTypes == {"whatsapp", "live_video", "walk_in"}

\* C8: a public request whose requestType is not an accepted alias is answered
\* 400 and makes no data-store call: no lookup is counted and the viewing
\* requests are left as they were.
C8_InvalidTypeRejected ==
    /\ \A dealerId \in DealerParams, body \in Bodies :
         cleanLower(body.requestType) \notin AcceptedAliases =>
             LET out == publicCreateRequest(requests, dealerId, body) IN
             out.code = 400 /\ out.calls = 0 /\ out.requests = requests /\ out.data = {}
    /\ (resp.op = "publicRequest"
        /\ cleanLower(resp.posted.requestType) \notin AcceptedAliases)
       => (resp.code = 400 /\ resp.dbCalls = 0)

\* C8 witness: a request with an unknown type was answered 400 while an active
\* dealer exists that it could have been stored for.
C8_Witness ==
    /\ resp.op = "publicRequest" /\ resp.code = 400 /\ resp.dbCalls = 0
    /\ resp.posted.requestType = "phone"
    /\ \E d \in DOMAIN profiles : profiles[d].status = "active"
    /\ Cardinality(DOMAIN requests) < MaxRequests

\* a public request as C9 describes it: an existing unpaused dealer, a
\* non-empty name, a phone of at least seven digits and an accepted alias
WellFormedRequest(dealerId, body) ==
    /\ dealerId \in DOMAIN profiles
    /\ profiles[dealerId].status # "paused"
    /\ body.customerName = "John Doe"
    /\ Cardinality({i \in DOMAIN body.phone : body.phone[i] \in Digits}) >= 7
    /\ cleanLower(body.requestType) \in AcceptedAliases

\* C9: a well-formed public request is answered 201 with one request whose
\* type is a canonical enum value, whose status is new and whose source is
\* storefront, whatever status or source the body supplies, and every stored
\* row carries such values.
C9_CreatedRequestNormalized ==
    /\ \A dealerId \in DealerParams, body \in Bodies :
         WellFormedRequest(dealerId, body) =>
             LET out == publicCreateRequest(requests, dealerId, body) IN
             /\ out.code = 201
             /\ Cardinality(out.data) = 1
             /\ \A request \in out.data :
                  /\ request.type \in CanonicalTypes
                  /\ body.requestType = "wa" => request.type = "whatsapp"
                  /\ request.status = "new"
                  /\ request.source = "storefront"
             /\ \A r \in DOMAIN out.requests :
                  /\ out.requests[r].type \in CanonicalTypes
                  /\ out.requests[r].status = "new"
                  /\ out.requests[r].source = "storefront"
    /\ resp.op = "publicRequest" /\ resp.code = 201 =>
         \A request \in resp.data : request.status = "new" /\ request.source = "storefront"

\* C9 witness: a request posted with type wa, status closed and source admin
\* was answered 201 and stored as a whatsapp request.
C9_Witness ==
    /\ resp.op = "publicRequest" /\ resp.code = 201
    /\ resp.posted.requestType = "wa"
    /\ resp.posted.extra.status = "closed" /\ resp.posted.extra.source = "admin"
    /\ \E r \in DOMAIN requests : requests[r].type = "whatsapp"

\* C10: the public vehicle listing of a dealer whose profile status is paused
\* is answered 403 with no vehicles, for every value of the all flag.
C10_PausedStorefrontClosed ==
    (/\ resp.op = "publicVehicles"
     /\ resp.asked.dealerId \in DOMAIN profiles
     /\ profiles[resp.asked.dealerId].status = "paused")
    => (resp.code = 403 /\ resp.data = {})

\* C10 witness: the listing of a paused dealer who owns a published vehicle
\* was asked for with all=1 and refused.
C10_Witness ==
    /\ resp.op = "publicVehicles" /\ resp.code = 403
    /\ resp.asked.all = "1"
    /\ \E v \in DOMAIN vehicles :
         /\ vehicles[v].dealer_id = resp.asked.dealerId
         /\ vehicles[v].availability /\ ~vehicles[v].archived

IsDigit(ch) == ch \in Digits

\* C17: the public request route creates a request only when the trimmed
\* customerName is non-empty and the phone contains at least 7 digits;
\* otherwise the answer is 400 and no request row is created.
C17_NameAndPhoneRequired ==
    \A dealerId \in DealerParams, body \in Bodies :
        LET out == publicCreateRequest(requests, dealerId, body)
            acceptable == /\ cleanName(body.customerName) # ""
                          /\ Len(SelectSeq(body.phone, IsDigit)) >= 7
        IN  ~acceptable => (out.code = 400 /\ out.requests = requests)

\* the vehicle exists and is a vehicle of the dealer
VehicleOf(vehicleId, dealerId) ==
    vehicleId \in DOMAIN vehicles /\ vehicles[vehicleId].dealer_id = dealerId

\* C18: a request created through the public endpoint carries a vehicle
\* reference only if that vehicle exists and is a vehicle of the request's
\* dealer; otherwise it carries no vehicle reference of any kind.
C18_VehicleReferenceOwned ==
    \A r \in DOMAIN requests :
        /\ requests[r].Vehicle # "" => VehicleOf(requests[r].Vehicle, requests[r].Dealer)
        /\ requests[r].VehicleID # "" => VehicleOf(requests[r].VehicleID, requests[r].Dealer)

\* C19: the public vehicle list holds only vehicles of the requested dealer
\* that are not archived and, unless all=1 is given, only available ones.
C19_PublicListFiltered ==
    (resp.op = "publicVehicles" /\ resp.code = 200) =>
        \A row \in resp.data :
            /\ row.dealerId = resp.asked.dealerId
            /\ vehicles[row.vehicleId].dealer_id = resp.asked.dealerId
            /\ ~row.archived /\ ~vehicles[row.vehicleId].archived
            /\ resp.asked.all # "1" =>
                   (row.availability /\ vehicles[row.vehicleId].availability)

\* a list without all=1 that left a vehicle of the requested dealer out
C19_Witness ==
    /\ resp.op = "publicVehicles" /\ resp.code = 200
    /\ resp.asked.all # "1"
    /\ resp.data = {}
    /\ \E v \in DOMAIN vehicles :
           vehicles[v].dealer_id = resp.asked.dealerId /\ ~vehicles[v].archived

-----------------------------------------------------------------------------
(* Claims about the dealer request-status route *)

\* C5: a request-status update authenticated as one dealer changes only
\* viewing requests whose dealer_id is that dealer; a request of another dealer
\* is left unchanged.
C5_OwnRequestsOnly ==
    [][\A r \in DOMAIN requests :
          requests'[r] # requests[r] =>
              (resp'.op = "requestStatus" /\ resp'.by.dealerId = requests[r].dealer_id)]_vars

SpecStatuses == {"new", "contacted", "booked", "closed", "no_show"}

\* C21: after any sequence of request-status calls the stored status of every
\* viewing request is one of new, contacted, booked, closed, no_show.
C21_StoredStatusInEnum ==
    \A r \in DOMAIN requests : requests[r].status \in SpecStatuses

-----------------------------------------------------------------------------
(* Claims about the passcode reset *)

\* C6: a reset token is single-use: over any sequence or interleaving of
\* reset-passcode requests carrying it, at most one rewrites the passcode.
C6_TokenSingleUse ==
    \A token \in DOMAIN hist.rewrites : hist.rewrites[token] <= 1

ExpiredTokens == {token \in DOMAIN resetTokens : resetTokens[token].expiresAt < now}

\* C22 as stated: a reset-passcode request made after the token's expiresAt
\* is answered 400, does not go on to the passcode write, and removes the
\* token from the map.
C22_ExpiredTokenRemoved ==
    \A token \in ExpiredTokens, newPasscode \in NewPasscodes :
        LET out == resetPasscodeCheck(resetTokens, token, newPasscode, now)
        IN  out.code = 400 /\ token \notin DOMAIN out.tokens

\* C22 (amended): a token expires 1 hour after it was issued; a reset-passcode
\* request made after that is answered 400 and does not go on to the passcode
\* write; it removes the token when the new passcode has at least 6
\* characters, and leaves the map as it is when the passcode is rejected first.
C22_ExpiredTokenRefused ==
    /\ \A token \in DOMAIN resetTokens : resetTokens[token].expiresAt <= now + ResetTtlHours
    /\ \A token \in ExpiredTokens, newPasscode \in NewPasscodes :
        LET out == resetPasscodeCheck(resetTokens, token, newPasscode, now)
        IN  /\ out.code = 400
            /\ out.tokens = IF Len(newPasscode) >= 6
                            THEN Without(resetTokens, {token}) ELSE resetTokens

\* an expired token was refused and removed, and no passcode was rewritten
C22_Witness ==
    /\ resp.op = "resetPasscode" /\ resp.code = 400
    /\ hist.issued = 1 /\ hist.rewrites = <<>>
    /\ resetTokens = <<>>
    /\ \A c \in Conns : inflight[c].pc = "idle"

-----------------------------------------------------------------------------
(* Claims about the passcode hash *)

\* C12: verifyPasscode(p, hashPasscode(p)) is true for every non-empty p, and
\* verifyPasscode(q, hashPasscode(p)) is false for every q different from p.
C12_HashRoundTrip ==
    resp.op = "verifyPasscode" => (resp.verified <=> resp.given = resp.hashed)

-----------------------------------------------------------------------------
(* Claims about login and the guard *)

\* the login bodies that name dealer d by its dealer_id, with no email or a
\* well-formed one
LoginsOf(d) ==
    {body \in LoginBodies :
        /\ body.identity.kind = "id" /\ body.identity.id = d
        /\ body.email \in {"", "b@x.io"}}

C14_GuardOrder ==
    /\ \A token \in Tokens :
         LET code == requireActiveDealer(token)
             known == token.valid /\ token.role = "dealer"
                      /\ token.dealerId \in DOMAIN profiles
             dealer == profiles[token.dealerId]
             paused == known /\ dealer.status = "paused"
             inactive == /\ known
                         /\ dealer.stripe_subscription_status # ""
                         /\ dealer.stripe_subscription_status \notin {"active", "trialing"}
                         /\ ~(dealer.trial_ends_at # NullTime /\ dealer.trial_ends_at > now)
         IN  /\ ~token.valid => code = 401
             /\ (token.valid /\ token.role # "dealer") => code = 403
             /\ paused => code = 403
             /\ (known /\ ~paused /\ inactive) => code = 402
             /\ code = 0 => (known /\ ~paused /\ ~inactive)
    /\ (resp.op = "me" /\ resp.code = 200) =>
         /\ resp.bearer.valid /\ resp.bearer.role = "dealer"
         /\ resp.bearer.dealerId \in DOMAIN profiles
         /\ profiles[resp.bearer.dealerId].status # "paused"

\* C14 witness: a dealer both paused and with an inactive subscription was
\* answered 403.
C14_Witness ==
    /\ resp.op = "me" /\ resp.code = 403
    /\ resp.bearer.role = "dealer" /\ resp.bearer.dealerId = 1
    /\ profiles[1].status = "paused"
    /\ profiles[1].stripe_subscription_status = "past_due"
    /\ profiles[1].trial_ends_at < now

-----------------------------------------------------------------------------
(* Claims about the validators *)

\* C13: isValidDealerId(s) is true exactly when s has between 3 and 40
\* characters and each is a letter, a digit, an underscore or a hyphen.
C13_DealerIdFormat ==
    resp.op = "isValidDealerId" =>
        (resp.valid <=>
            /\ Len(resp.text) >= 3
            /\ Len(resp.text) <= 40
            /\ \A i \in 1..Len(resp.text) : resp.text[i] \in IdChars)

\* C13 witness: a string of 41 accepted characters was rejected.
C13_Witness ==
    /\ resp.op = "isValidDealerId" /\ ~resp.valid
    /\ Len(resp.text) = 41
    /\ \A i \in 1..Len(resp.text) : resp.text[i] \in IdChars

-----------------------------------------------------------------------------
(* Claims about the reset request *)

WellFormedEmails == {email \in Emails : isValidEmail(email)}

\* C15: a reset request with a well-formed email is answered with the same
\* status code and the same body whether or not a profile has that email, and
\* whether or not the mail could be sent.
C15_ResetAnswerUniform ==
    \A known, unknown \in WellFormedEmails :
        \A sentKnown, sentUnknown \in MailOutcomes :
            (/\ Matching(profiles, "profile_email", known) # {}
             /\ Matching(profiles, "profile_email", unknown) = {})
            => requestResetAnswer(profiles, known, sentKnown)
               = requestResetAnswer(profiles, unknown, sentUnknown)

-----------------------------------------------------------------------------
(* Claims about the rows and their dealers *)

\* C16: every vehicle row and every viewing-request row has the dealer_id of
\* an existing profile.
C16_RowsHaveDealers ==
    /\ \A v \in DOMAIN vehicles : vehicles[v].dealer_id \in DOMAIN profiles
    /\ \A r \in DOMAIN requests : requests[r].dealer_id \in DOMAIN profiles

-----------------------------------------------------------------------------
(* Claims about airtableFetch *)

Frames == {c \in Conns : inflight[c].op = "airtableFetch"}

Requests(c) == Len(inflight[c].statuses)

\* every response but the last was a 429: no other response is retried
OnlyRetries429(c) ==
    /\ \A i \in 1..(Requests(c) - 1) : inflight[c].statuses[i] = 429
    /\ inflight[c].pc \in {"fetch", "sleep"} =>
           \A i \in 1..Requests(c) : inflight[c].statuses[i] = 429

\* C20 as stated: one call makes at most 3 HTTP requests, and no response
\* other than a 429 is retried.
C20_AtMostThreeRequests ==
    \A c \in Frames : Requests(c) <= 3 /\ OnlyRetries429(c)

\* the waits before the retries, in order
RetryWaits == <<sleepMs(0), sleepMs(1), sleepMs(2)>>

C20_Bounded ==
    \A c \in Frames :
        /\ Requests(c) <= MaxRetries + 1
        /\ OnlyRetries429(c)
        /\ inflight[c].sleeps = SubSeq(RetryWaits, 1, Len(inflight[c].sleeps))
        /\ Len(inflight[c].sleeps) =
               IF inflight[c].pc = "sleep" THEN Requests(c) - 1
               ELSE IF inflight[c].pc = "fetch" THEN Requests(c)
               ELSE Requests(c) - 1
        /\ (inflight[c].pc \in FetchDone /\ inflight[c].statuses[Requests(c)] = 429)
               => (inflight[c].pc = "thrown" /\ Requests(c) = MaxRetries + 1)

\* C20 (amended): one call makes at most 4 HTTP requests, the first and up to
\* 3 retries after waits of 800, 1400 and 2000 ms; only a 429 is retried; a
\* call answered 429 throughout throws after the fourth; every call ends.
C20_RetriesCappedAndEnds ==
    /\ []C20_Bounded
    /\ \A c \in Conns :
           (inflight[c].pc \in {"fetch", "sleep"}) ~> (inflight[c].pc \in FetchDone)

\* a call answered 429 four times has thrown
C20_Witness ==
    \E c \in Frames :
        /\ inflight[c].pc = "thrown"
        /\ inflight[c].statuses = <<429, 429, 429, 429>>
        /\ inflight[c].sleeps = <<800, 1400, 2000>>

-----------------------------------------------------------------------------
(* Claims about the dealer id generation *)

\* the number of the latest id of a table, 0 when there is none
NumberOfLatest(ids) ==
    IF ids = {} THEN 0
    ELSE LET latest == CHOOSE s \in ids : \A t \in ids : t = s \/ TextBefore(t, s)
         IN  parseInt(LeadingDigits(latest))

\* the numbers among the 50 after the latest whose DEALER-nnnn no profile has
Unused(ids) ==
    {n \in (NumberOfLatest(ids) + 1)..(NumberOfLatest(ids) + ScanLimit) :
        padStart(ToDigits(n), PadWidth) \notin ids}

FirstUnused(ids) == CHOOSE n \in Unused(ids) : \A m \in Unused(ids) : n <= m

SequentialOrRandom ==
    IF Unused(resp.ids) # {}
    THEN resp.dealerId = padStart(ToDigits(FirstUnused(resp.ids)), PadWidth)
    ELSE resp.dealerId = resp.random

\* C23 as stated: the id returned is one no profile has: the first unused
\* DEALER-nnnn among the 50 numbers after the latest id's, and a random id
\* only when all 50 are taken.
C23_GeneratedIdUnused ==
    resp.op = "generateNextDealerId" =>
        (resp.dealerId \notin resp.ids /\ SequentialOrRandom)

\* C23 (amended): the id returned is the first unused DEALER-nnnn among the 50
\* numbers after the latest id's, which no profile has, and the random id
\* when all 50 are taken; the random id is returned without a lookup.
C23_FirstUnusedOrRandom ==
    resp.op = "generateNextDealerId" =>
        /\ SequentialOrRandom
        /\ Unused(resp.ids) # {} => resp.dealerId \notin resp.ids

\* all 50 candidates after DEALER-9999 were taken and the random id returned
C23_Witness ==
    /\ resp.op = "generateNextDealerId"
    /\ NumberOfLatest(resp.ids) = 9999
    /\ Unused(resp.ids) = {}
    /\ resp.dealerId = resp.random

-----------------------------------------------------------------------------
(* Claims about the admin summary *)

\* C24: in the dealers list of the admin summary every active dealer precedes
\* every dealer that is not active, and within each of the two groups the
\* request counts do not increase; the list has one row for each profile,
\* with its status and the number of its counted requests.
C24_SummarySorted ==
    (resp.op = "adminSummary" /\ resp.code = 200) =>
        LET dealers == resp.dealers IN
        /\ \A i, j \in DOMAIN dealers :
               i < j =>
                   /\ dealers[j].status = "active" => dealers[i].status = "active"
                   /\ (dealers[i].status = "active") = (dealers[j].status = "active")
                          => dealers[i].requests >= dealers[j].requests
        /\ Len(dealers) = Cardinality(DOMAIN profiles)
        /\ \A d \in DOMAIN profiles :
               \E i \in DOMAIN dealers :
                   /\ dealers[i].dealerId = d
                   /\ dealers[i].status = profiles[d].status
                   /\ dealers[i].requests =
                          Cardinality({r \in resp.counted : requests[r].dealer_id = d})

\* an active dealer with no request listed before a paused one with two,
\* although the store listed the paused one first
C24_Witness ==
    /\ resp.op = "adminSummary" /\ resp.code = 200
    /\ \E i, j \in DOMAIN resp.dealers :
           /\ i < j
           /\ resp.dealers[i].status = "active" /\ resp.dealers[i].requests = 0
           /\ resp.dealers[j].status = "paused" /\ resp.dealers[j].requests = 2
           /\ resp.listed[1] = resp.dealers[j].dealerId

-----------------------------------------------------------------------------
(* Claims about malformed stored passcodes *)

\* the text is a decimal number greater than zero
PositiveNumber(text) ==
    /\ text # <<>>
    /\ \A i \in DOMAIN text : text[i] \in 0..9
    /\ \E i \in DOMAIN text : text[i] # 0

\* pbkdf2$<iters>$<saltB64>$<hashB64> with a positive count and a 32-byte hash
WellFormedStored(stored) ==
    /\ stored.isString
    /\ Len(stored.parts) = 4
    /\ stored.parts[1] = "pbkdf2"
    /\ PositiveNumber(stored.parts[2])
    /\ bufferLength(fromBase64(stored.parts[4])) = KeyBytes

\* C25: verifyPasscode returns false, and does not throw, for every stored
\* value that is not a well-formed pbkdf2$<iters>$<saltB64>$<hashB64> string.
C25_MalformedStoredIsFalse ==
    (resp.op = "verifyStored" /\ ~WellFormedStored(resp.stored)) =>
        (resp.guarded = "false" /\ resp.unguarded = "false")

-----------------------------------------------------------------------------
(* Claims about the trial end under subscription events *)

\* the customer.subscription.* events whose subscription has no trial_end
UntimedSubscriptionEvents ==
    {e \in Events : e.type \in SubscriptionTypes /\ e.subscription.trial_end = NullTime}

\* C26: processing a customer.subscription.created, updated or deleted event
\* whose subscription has no trial_end leaves the trial_ends_at of every
\* profile, the matched one included, unchanged.
C26_TrialEndKept ==
    (stripeApi.secret /\ stripeApi.live) =>
        \A e \in UntimedSubscriptionEvents, passcode \in GeneratedPasscodes :
            LET out == webhook(profiles, now, e, TRUE, passcode) IN
            \A d \in DOMAIN profiles :
                out.profiles[d].trial_ends_at = profiles[d].trial_ends_at

-----------------------------------------------------------------------------
(* Claims about concurrent provisioning *)

\* C27: when checkout.session.completed events for two different Stripe
\* customers are processed concurrently, the provisioned dealers get different
\* dealer_ids and each profile keeps its own stripe_customer_id and passcode:
\* neither upsert overwrites the profile written by the other.
C27_ProvisionedProfilesKept ==
    \A a, b \in DOMAIN hist.provisioned :
        /\ a # b => hist.provisioned[a].dealerId # hist.provisioned[b].dealerId
        /\ hist.provisioned[a].dealerId \in DOMAIN profiles
        /\ profiles[hist.provisioned[a].dealerId].stripe_customer_id = a
        /\ profiles[hist.provisioned[a].dealerId].password = hist.provisioned[a].passcode

-----------------------------------------------------------------------------
(* Claims about the referral reward *)

\* the checkout sessions that provision a new dealer on the table
NewDealerSessions ==
    {s \in ProvisionSessions : ~findStripeDealer(profiles, s.customer, s.subscription).found}

\* C28: when a new dealer is provisioned with referral code R, referral_credits
\* grows by exactly 1 on the profile whose referral_code is R and on no other
\* profile; when no profile has referral_code R, no referral_credits changes.
C28_CreditGoesToCodeOwner ==
    \A session \in NewDealerSessions, R \in ReferralCodes \ {""},
       newCode \in NewReferralCodes, passcode \in GeneratedPasscodes :
        \A P2 \in checkoutWithReferral(profiles, now, session, R, passcode, newCode) :
            /\ \A d \in DOMAIN profiles :
                 P2[d].referral_credits =
                     profiles[d].referral_credits
                     + (IF profiles[d].referral_code = R THEN 1 ELSE 0)
            /\ \A d \in DOMAIN P2 \ DOMAIN profiles : P2[d].referral_credits = 0

-----------------------------------------------------------------------------
(* Claims about paused dealers *)

\* C29: once a dealer's profile status is paused, every later dealer-API
\* request with that dealer's token is answered 403 and performs no write: no
\* request that arrives while its dealer is paused gets past the guards of its
\* route, to a lookup or a write.
C29_PausedDealerRefused ==
    [][\A c \in Conns :
          (inflight[c].pc = "idle" /\ inflight'[c].pc # "idle") =>
              ~isPausedDealer(profiles[inflight'[c].dealerId])]_vars

-----------------------------------------------------------------------------
(* Claims about the admin dealer upsert *)

\* the bodies for an existing dealer that carry no status and no passcode
BareUpdates ==
    {body \in AdminDealerBodies :
        body.dealerId \in DOMAIN profiles /\ body.status = "" /\ body.passcode = ""}

\* C30: POST /api/admin/dealers for a dealer_id that already exists, with a
\* body that carries no status and no passcode, leaves the stored status and
\* the stored password unchanged.
C30_BareUpdateKeepsStatus ==
    \A body \in BareUpdates :
        LET after == adminUpsertProfiles(profiles, body) IN
        /\ after[body.dealerId].status = profiles[body.dealerId].status
        /\ after[body.dealerId].password = profiles[body.dealerId].password

====
